---- MODULE Spec2Model ----
(***************************************************************************)
(* Research orchestration graph of local-deep-researcher.                  *)
(*                                                                         *)
(* Strings are sequences of tokens.  A topic is a sequence of words, an    *)
(* LLM answer is a sequence of text tokens, braces and tags, a report is   *)
(* a sequence of markdown tokens.  The operators that search, cut and      *)
(* replace work on these sequences the way the Python code works on        *)
(* characters.                                                             *)
(***************************************************************************)
EXTENDS Integers, Sequences, FiniteSets, TLC

VARIABLES
    research_topic,          \* SummaryState.research_topic
    input_analysis,          \* SummaryState.input_analysis
    search_strategy,         \* SummaryState.search_strategy
    search_query,            \* SummaryState.search_query
    web_research_results,    \* SummaryState.web_research_results (operator.add)
    sources_gathered,        \* SummaryState.sources_gathered (operator.add)
    research_loop_count,     \* SummaryState.research_loop_count
    running_summary,         \* SummaryState.running_summary
    verification_questions,  \* SummaryState.verification_questions (operator.add)
    verification_results,    \* SummaryState.verification_results (operator.add)
    tool_results,            \* SummaryState.tool_results (operator.add)
    enhanced_context,        \* SummaryState.enhanced_context
    config,                  \* Configuration of the run
    pc,                      \* node the graph executes next
    trace,                   \* nodes executed so far, in order
    last_search,             \* what the last parallel_search_coordinator call did
    last_reflection,         \* the verdict parsed by the last reflect_on_summary
    fn,                      \* input and result of the pure-function checks
    tools,                   \* names in ToolManager.tools
    openwebui_initialized,   \* ToolManager.openwebui_initialized
    tool_functions,          \* names in OpenWebUIToolIntegration.tool_functions
    sessions,                \* OpenWebUIToolIntegration.sessions of the tool server:
                             \* the session stored there, 0 when there is no entry
    open_sessions,           \* the aiohttp.ClientSession objects that are not closed
    session_count,           \* aiohttp.ClientSession objects created so far
    last_execution,          \* the last execute_tool call and what it did
    tool_servers,            \* number of entries of OpenWebUIToolIntegration.tool_servers
    researchers              \* where each of two parallel sessions stands in
                             \* _tool_enhanced_research_async, and the tools it was offered

vars == <<research_topic, input_analysis, search_strategy, search_query,
          web_research_results, sources_gathered, research_loop_count,
          running_summary, verification_questions, verification_results,
          tool_results, enhanced_context, config, pc, trace, last_search,
          last_reflection, fn, tools, openwebui_initialized, tool_functions,
          sessions, open_sessions, session_count, last_execution,
          tool_servers, researchers>>

tool_vars == <<tools, openwebui_initialized, tool_functions, sessions,
               open_sessions, session_count, last_execution, tool_servers,
               researchers>>

session_vars == <<research_topic, input_analysis, search_strategy, search_query,
          web_research_results, sources_gathered, research_loop_count,
          running_summary, verification_questions, verification_results,
          tool_results, enhanced_context, config, pc, trace, last_search,
          last_reflection>>

(***************************************************************************)
(* Bounds                                                                  *)
(***************************************************************************)
\* largest configured max_web_research_loops explored
MaxConfigured == 2

\* smallest configured max_web_research_loops explored
MinConfigured == 0 - 1

\* largest research_loop_count given to route_research in the function check
MaxLoopArg == 5

\* largest number of execute_tool calls in one run of the tool manager
MaxCalls == 2

\* longest list of sources given to deduplicate_and_format_sources
MaxSources == 3

\* longest LLM answer, in tokens, given to the JSON extraction
MaxRawLen == 4

\* most lines the MCP subprocess prints on its stdout
MaxLines == 2

\* most verification questions in the state given to verify_research_claims
MaxQuestions == 4

\* rounds of a loop that are followed before the model stops following it
MaxRounds == 3

\* largest MCPServerConfig.max_retries (its default is 3)
MaxRetries == 3

\* longest tool_calls list of an LLM answer
MaxToolCalls == 2

\* node executions after which the model stops a run; no session of the
\* graph as written gets near it
MaxSteps == 6 * MaxConfigured + 14

(***************************************************************************)
(* Sequence helpers                                                        *)
(***************************************************************************)
Last(s) == s[Len(s)]

\* text[a:b] of Python with 0-based a (inclusive) and b (exclusive)
Slice(s, a, b) == SubSeq(s, a + 1, b)

\* str.find on tokens: 0-based index of the first occurrence, -1 if none
Find(s, tok) ==
    IF \E i \in 1..Len(s) : s[i] = tok
    THEN (CHOOSE i \in 1..Len(s) : s[i] = tok /\ \A j \in 1..(i-1) : s[j] # tok) - 1
    ELSE 0 - 1

\* str.rfind on tokens: 0-based index of the last occurrence, -1 if none
RFind(s, tok) ==
    IF \E i \in 1..Len(s) : s[i] = tok
    THEN (CHOOSE i \in 1..Len(s) : s[i] = tok /\ \A j \in (i+1)..Len(s) : s[j] # tok) - 1
    ELSE 0 - 1

\* pattern occurs in s at 1-based position i
OccursAt(s, pat, i) ==
    /\ i >= 1
    /\ i + Len(pat) - 1 <= Len(s)
    /\ \A k \in 1..Len(pat) : s[i + k - 1] = pat[k]

\* `pat in s` of Python
Contains(s, pat) == \E i \in 1..(Len(s) + 1) : OccursAt(s, pat, i)

\* str.replace(old, new): every non-overlapping occurrence, left to right
RECURSIVE Replace(_, _, _)
Replace(s, old, new) ==
    IF Len(old) = 0 \/ Len(s) < Len(old) THEN s
    ELSE IF OccursAt(s, old, 1)
         THEN new \o Replace(SubSeq(s, Len(old) + 1, Len(s)), old, new)
         ELSE <<s[1]>> \o Replace(Tail(s), old, new)

\* number of occurrences of x in s
RECURSIVE Count(_, _)
Count(s, x) ==
    IF s = <<>> THEN 0
    ELSE (IF s[1] = x THEN 1 ELSE 0) + Count(Tail(s), x)

\* concatenation of a sequence of sequences
RECURSIVE Flatten(_)
Flatten(ss) == IF ss = <<>> THEN <<>> ELSE ss[1] \o Flatten(Tail(ss))

\* the value None of a string field
None == <<"None">>

Min(a, b) == IF a < b THEN a ELSE b

(***************************************************************************)
(* Topics: sequences of words.  "URL" stands for a word that starts with   *)
(* http:// or https://, "WWW" for a word that starts with www.             *)
(***************************************************************************)
Topics ==
    { <<"what", "is", "quantum">>,
      <<"what", "is", "this">>,
      <<"summarize", "WWW">>,
      <<"summarize", "this", "URL">>,
      <<"summarize", "URL">>,
      <<"summarize", "this", "link", "URL">>,
      <<"review", "URL">>,
      <<"review", "link", "URL">>,
      <<"tell", "me", "about", "this", "URL">>,
      <<"what", "is", "that", "URL">> }

\* re.search(url_pattern, user_input): the first URL of the text, or None
UrlMatch(text) ==
    IF Find(text, "URL") >= 0 THEN "URL" ELSE "None"

DirectVerbsArticle == {"analyze", "explain", "summarize", "review", "examine"}
DirectNouns == {"url", "link", "page", "website", "article"}
DirectVerbsUrl == {"analyze", "explain", "summarize"}

\* the four direct_indicators patterns, one re.search each
DirectIndicator1(text) ==
    \E i \in 1..Len(text) :
        /\ text[i] \in DirectVerbsArticle
        /\ \/ (i + 1 <= Len(text) /\ text[i+1] \in DirectNouns)
           \/ (i + 2 <= Len(text) /\ text[i+1] = "this" /\ text[i+2] \in DirectNouns)

DirectIndicator2(text) ==
    \E i \in 1..(Len(text) - 2) :
        /\ text[i] \in {"what", "how"}
        /\ text[i+1] \in {"is", "does", "are"}
        /\ text[i+2] \in {"this", "that"}

DirectIndicator3(text) ==
    \E i \in 1..(Len(text) - 3) :
        /\ text[i] = "tell"
        /\ text[i+1] = "me"
        /\ text[i+2] = "about"
        /\ text[i+3] \in {"this", "that"}

\* variant: the fourth pattern accepts only www. after the verb
DirectIndicator4_WwwOnly(text) ==
    \E i \in 1..(Len(text) - 1) :
        /\ text[i] \in DirectVerbsUrl
        /\ text[i+1] \in {"WWW"}

DirectIndicator4(text) ==
    \E i \in 1..(Len(text) - 1) :
        /\ text[i] \in DirectVerbsUrl
        /\ text[i+1] \in {"URL", "WWW"}

\* any(re.search(pattern, user_input, re.IGNORECASE) for pattern in direct_indicators)
DirectRequestPhrase(text) ==
    \/ DirectIndicator1(text)
    \/ DirectIndicator2(text)
    \/ DirectIndicator3(text)
    \/ DirectIndicator4(text)

\* analyze_user_input
analyze_user_input(user_input) ==
    IF UrlMatch(user_input) # "None"
    THEN [input_type |-> "url",
          url |-> UrlMatch(user_input),
          direct_fetch |-> DirectRequestPhrase(user_input)]
    ELSE [input_type |-> "general_query",
          url |-> "None",
          direct_fetch |-> FALSE]

\* input_analysis of a fresh SummaryState: the empty dict, read with
\* .get('url') and .get('direct_fetch', False)
EmptyAnalysis == [input_type |-> "unset", url |-> "None", direct_fetch |-> FALSE]

\* variant: the two branches of the input-type test are swapped
ClassifyStrategy_Swapped(analysis, classifier_outcome) ==
    IF analysis.input_type # "url"
    THEN IF classifier_outcome = "raise" THEN "web_search" ELSE "url_fetch"
    ELSE "web_search"

\* the strategy classify_intent chooses from the input analysis; the
\* classifier's answer (or its exception) decides only the recorded intent, never the strategy
ClassifyStrategy(analysis, classifier_outcome) ==
    IF analysis.input_type = "url"
    THEN IF analysis.direct_fetch THEN "url_fetch" ELSE "web_search"
    ELSE IF classifier_outcome = "raise" THEN "web_search" ELSE "web_search"

\* variant: sessions without URL fetch skip tool_enhanced_research
route_after_intent_SkipsTools(strategy) ==
    IF strategy \in {"url_fetch"} THEN "fetch_url_content"
    ELSE "generate_query"

\* route_after_intent
route_after_intent(strategy) ==
    IF strategy \in {"url_fetch"} THEN "fetch_url_content"
    ELSE "tool_enhanced_research"

\* variant: the fetched URL always goes on to tool-enhanced research
route_after_url_fetch_ToTools(analysis) ==
    "tool_enhanced_research"

\* route_after_url_fetch
route_after_url_fetch(analysis) ==
    IF analysis.direct_fetch THEN "summarize_sources"
    ELSE "tool_enhanced_research"

\* variant: the direct-fetch test is missing
route_after_summarize_AlwaysVerifies(strategy, analysis) ==
    "generate_verification_questions"

\* route_after_summarize
route_after_summarize(strategy, analysis) ==
    IF (strategy = "url_fetch" /\ analysis.direct_fetch) \/ analysis.direct_fetch
    THEN "finalize_summary"
    ELSE "generate_verification_questions"

\* variant: url_fetch sessions get one loop whatever is configured
MaxLoops_NoMin(strategy, analysis, configured) ==
    IF strategy = "url_fetch"
    THEN IF analysis.direct_fetch THEN 0 ELSE 1
    ELSE configured

\* max_loops of route_research
MaxLoops(strategy, analysis, configured) ==
    IF strategy = "url_fetch"
    THEN IF analysis.direct_fetch THEN 0 ELSE Min(configured, 1)
    ELSE configured

\* route_research
route_research(strategy, analysis, loop_count, configured) ==
    IF loop_count < MaxLoops(strategy, analysis, configured)
    THEN "web_research"
    ELSE "finalize_summary"

(***************************************************************************)
(* LLM answers.  "ws" is whitespace, "noise" any text without braces,      *)
(* "{" and "}" the braces, "lit" a JSON value that is no object, and the   *)
(* tokens of JsonPayloads the members of a JSON object.                    *)
(***************************************************************************)
JsonPayloads == {"query", "suff", "fu_list", "fu_str", "fu_none"}

JsonResponses ==
    { <<"{", "query", "}">>,
      <<"noise", "{", "query", "}", "noise">>,
      <<"ws", "{", "suff", "}", "ws">>,
      <<"{", "fu_list", "}">>,
      <<"<think>", "noise", "</think>", "noise">>,
      <<"lit">> }

\* answers of the summarizing LLM; the last one is the empty answer
SummaryTexts ==
    { <<"text">>,
      <<"<think>", "noise", "</think>", "text">>,
      <<"<think>", "noise", "</think>">>,
      <<>> }

\* str.strip()
RECURSIVE LStrip(_)
LStrip(s) == IF s # <<>> /\ s[1] = "ws" THEN LStrip(Tail(s)) ELSE s

RECURSIVE RStrip(_)
RStrip(s) ==
    IF s # <<>> /\ s[Len(s)] = "ws" THEN RStrip(SubSeq(s, 1, Len(s) - 1)) ELSE s

Strip(s) == RStrip(LStrip(s))

\* strip_thinking_tokens
RECURSIVE strip_thinking_tokens(_)
strip_thinking_tokens(text) ==
    IF Find(text, "<think>") >= 0 /\ Find(text, "</think>") >= 0
    THEN strip_thinking_tokens(
             Slice(text, 0, Find(text, "<think>"))
                 \o Slice(text, Find(text, "</think>") + 1, Len(text)))
    ELSE text

MaybeStripThinking(cfg, text) ==
    IF cfg.strip_thinking_tokens THEN strip_thinking_tokens(text) ELSE text

\* variant: the substring ends at the first "}"
ExtractJson_FirstClose(raw) ==
    LET content == Strip(raw)
        json_start == Find(content, "{")
        json_end == Find(content, "}") + 1
    IN
    IF content # <<>> /\ content[1] # "{"
    THEN IF json_start >= 0 /\ json_end > json_start
         THEN Slice(content, json_start, json_end)
         ELSE content
    ELSE content

\* the defensive extraction in front of json.loads: content.strip(), then the
\* substring from the first "{" to the last "}" when the text starts otherwise
ExtractJson(raw) ==
    LET content == Strip(raw)
        json_start == Find(content, "{")
        json_end == RFind(content, "}") + 1
    IN
    IF content # <<>> /\ content[1] # "{"
    THEN IF json_start >= 0 /\ json_end > json_start
         THEN Slice(content, json_start, json_end)
         ELSE content
    ELSE content

\* json.loads: "object" with its member, "empty" for {}, "value" for a JSON
\* value that is no object, "error" for JSONDecodeError; whitespace between
\* the tokens of the document is skipped
JsonLoads(content) ==
    LET NoSpace(tok) == tok # "ws"
        doc == SelectSeq(content, NoSpace)
    IN
    IF Len(doc) = 3 /\ doc[1] = "{" /\ doc[3] = "}"
       /\ doc[2] \in JsonPayloads
    THEN [kind |-> "object", member |-> doc[2]]
    ELSE IF doc = <<"{", "}">> THEN [kind |-> "empty", member |-> "none"]
    ELSE IF doc = <<"lit">> THEN [kind |-> "value", member |-> "none"]
    ELSE [kind |-> "error", member |-> "none"]

\* generate_query, from the LLM answer to search_query
GenerateQueryResult(cfg, raw) ==
    LET content == ExtractJson(raw)
        parsed == JsonLoads(content)
    IN  IF parsed.kind = "object" /\ parsed.member = "query"
        THEN <<"generated", "query">>
        ELSE MaybeStripThinking(cfg, content)

\* the verdict reflect_on_summary reads from the LLM answer
ReflectionVerdict(raw) ==
    LET parsed == JsonLoads(ExtractJson(raw))
    IN  IF parsed.kind \in {"error", "value"} THEN "unparsed"
        ELSE IF parsed.member = "suff" THEN "sufficient"
        ELSE IF parsed.member \in {"fu_list", "fu_str"} THEN "follow_up"
        ELSE "no_query"

\* reflect_on_summary, from the verdict to search_query
ReflectionQuery(verdict, topic) ==
    CASE verdict = "sufficient" -> <<>>
      [] verdict = "follow_up"  -> <<"follow", "up", "query">>
      [] verdict = "no_query"   -> <<"More", "information", "about">> \o topic
      [] OTHER                  -> <<"Tell", "me", "more", "about">> \o topic

(***************************************************************************)
(* Search results and sources                                              *)
(***************************************************************************)
SrcA == [title |-> "tA", url |-> "https://a"]
SrcB == [title |-> "tB", url |-> "https://b"]

\* result sets a search endpoint answers with
SearchResultSets == { <<>>, <<SrcA, SrcB>> }

\* what a search endpoint does when called: it raises or it answers
EndpointOutcomes ==
    {[raises |-> TRUE, results |-> <<>>]}
        \cup {[raises |-> FALSE, results |-> r] : r \in SearchResultSets}

\* searxng_search: everything the endpoint raises is caught inside
searxng_search(outcome) ==
    IF outcome.raises
    THEN [raised |-> FALSE, results |-> <<>>]
    ELSE [raised |-> FALSE, results |-> outcome.results]

\* variant: web_search_only lets the exception of the endpoint through
web_search_only_Propagates(outcome) ==
    [raised |-> outcome.raises, results |-> outcome.results]

\* web_search_only
web_search_only(outcome) ==
    LET r == searxng_search(outcome)
    IN  IF r.raised THEN [raised |-> FALSE, results |-> <<>>] ELSE r

\* mcp_search: `async with create_mcp_client(server_url)` is given the
\* coroutine, which is no context manager; the statement raises before any
\* request is sent, the except branch catches it and the result set is empty
\* whatever the MCP endpoint would have answered
mcp_search(outcome) ==
    [raised |-> FALSE, results |-> <<>>]

\* mcp_search_sync
mcp_search_sync(outcome) ==
    LET r == mcp_search(outcome)
    IN  IF r.raised THEN [raised |-> FALSE, results |-> <<>>] ELSE r

\* parallel_search_coordinator: the selected path, then the except branch
\* with the plain web search.  endpoint_failed and fallback_calls record
\* what happened during the call.
parallel_search_coordinator(strategy, outcome, fallback_outcome) ==
    LET first == IF strategy = "mcp" THEN mcp_search_sync(outcome)
                 ELSE web_search_only(outcome)
    IN  IF first.raised
        THEN [results |-> web_search_only(fallback_outcome).results,
              raised |-> web_search_only(fallback_outcome).raised,
              strategy |-> strategy,
              endpoint_failed |-> outcome.raises,
              fallback_calls |-> 1]
        ELSE [results |-> first.results,
              raised |-> FALSE,
              strategy |-> strategy,
              endpoint_failed |-> outcome.raises,
              fallback_calls |-> 0]

NoSearch ==
    [strategy |-> "none", endpoint_failed |-> FALSE, fallback_calls |-> 0,
     raised |-> FALSE, excepted |-> FALSE, fetched |-> FALSE]

\* variant: every source is kept
DedupByUrl_KeepsAll(sources, seen) == sources

\* deduplicate_and_format_sources: one entry per URL, the first one seen
RECURSIVE DedupByUrl(_, _)
DedupByUrl(sources, seen) ==
    IF sources = <<>> THEN <<>>
    ELSE IF sources[1].url \in seen THEN DedupByUrl(Tail(sources), seen)
    ELSE <<sources[1]>> \o DedupByUrl(Tail(sources), seen \cup {sources[1].url})

deduplicate_and_format_sources(results) == DedupByUrl(results, {})

\* format_sources: the lines of the bullet list
format_sources(results) ==
    IF results = <<>> THEN << <<"No sources found.">> >>
    ELSE [i \in 1..Len(results) |->
              <<"bullet", results[i].title, ":", results[i].url>>]

(***************************************************************************)
(* Tool-enhanced research: what one run of the node returns                *)
(***************************************************************************)
WebSearchToolResult ==
    [tool_name |-> "web_search", has_sources |-> FALSE, sources |-> <<>>]

ArxivToolResult ==
    [tool_name |-> "arxiv_search", has_sources |-> TRUE,
     sources |-> << [title |-> "tP", url |-> "https://arxiv.org/p", type |-> "arxiv"] >>]

ToolRuns ==
    { [tool_results |-> <<>>, enhanced_context |-> <<>>],
      [tool_results |-> <<WebSearchToolResult, ArxivToolResult>>,
       enhanced_context |-> <<"Tool", "web_search", "Tool", "arxiv_search">>] }

(***************************************************************************)
(* finalize_summary                                                        *)
(*                                                                         *)
(* Report tokens: "#" a hash sign, "sp" a space, "Sources" the word, ":"   *)
(* a colon, "&References" the text " & References", "---" a rule, "nl" a   *)
(* line break.                                                             *)
(***************************************************************************)
StdSources == <<"#", "#", "#", "sp", "Sources", ":">>

\* sources_patterns, in list order
sources_patterns ==
    << StdSources,
       <<"#", "#", "sp", "Sources">>,
       <<"Sources", "&References">>,
       <<"#", "#", "#", "sp", "Sources", "&References">>,
       <<"Sources", ":">>,
       <<"#", "#", "sp", "Sources", ":">> >>

\* answers of the report-writing LLM
Reports ==
    { <<>>,
      <<"text">>,
      <<"text", "---">>,
      <<"text", "nl", "#", "#", "sp", "Sources", "nl", "text">>,
      <<"text", "nl", "Sources", ":", "text">> }

\* the loop that standardizes the heading: the first pattern found is
\* replaced, then the loop breaks
RECURSIVE StandardizeFrom(_, _)
StandardizeFrom(report, i) ==
    IF i > Len(sources_patterns) THEN report
    ELSE IF Contains(report, sources_patterns[i])
         THEN Replace(report, sources_patterns[i], StdSources)
         ELSE StandardizeFrom(report, i + 1)

StandardizeSources(report) == StandardizeFrom(report, 1)

\* lines kept by the deduplication loops, in first-seen order
RECURSIVE DedupLines(_, _)
DedupLines(lines, seen) ==
    IF lines = <<>> THEN <<>>
    ELSE IF lines[1] # <<>> /\ lines[1] \notin seen
         THEN <<lines[1]>> \o DedupLines(Tail(lines), seen \cup {lines[1]})
         ELSE DedupLines(Tail(lines), seen)

\* the sources a tool result contributes
ToolSourcesOf(result) ==
    IF result.has_sources
    THEN [i \in 1..Len(result.sources) |->
              <<"**", result.sources[i].title, "**", ":", result.sources[i].url,
                IF result.sources[i].type = "arxiv" THEN "(ArXiv Paper)" ELSE "">>]
    ELSE <<>>

RECURSIVE ToolSources(_)
ToolSources(results) ==
    IF results = <<>> THEN <<>>
    ELSE ToolSourcesOf(results[1]) \o ToolSources(Tail(results))

\* unique_sources of finalize_summary
UniqueSources(gathered, executed) ==
    DedupLines(Flatten(gathered) \o ToolSources(executed), {})

\* tokens in which 'http://', 'https://' or 'www.' occurs
UrlTokens == {"https://a", "https://b", "https://arxiv.org/p", "URL", "WWW"}

\* one bullet of the appended sources section
SourceBullet(line) ==
    IF Find(line, ":") >= 0 /\ \E i \in 1..Len(line) : line[i] \in UrlTokens
    THEN <<"*", "**">> \o Slice(line, 0, Find(line, ":")) \o <<"**", ":">>
             \o Slice(line, Find(line, ":") + 1, Len(line)) \o <<"(Reliability)">>
    ELSE <<"*">> \o line

RECURSIVE Bullets(_)
Bullets(lines) ==
    IF lines = <<>> THEN <<>>
    ELSE <<"nl">> \o SourceBullet(lines[1]) \o Bullets(Tail(lines))

\* variant: the section is appended only to a report that has the heading
SourcesSection_Inverted(report, unique_sources) ==
    IF Contains(report, StdSources) /\ unique_sources # <<>>
    THEN <<"nl", "nl">> \o StdSources \o <<"nl">> \o Bullets(unique_sources)
    ELSE <<>>

\* the sources section appended when the report has no heading of its own
SourcesSection(report, unique_sources) ==
    IF ~Contains(report, StdSources) /\ unique_sources # <<>>
    THEN <<"nl", "nl">> \o StdSources \o <<"nl">> \o Bullets(unique_sources)
    ELSE <<>>

\* the footer
Footer(report) ==
    IF ~Contains(report, <<"---">>)
    THEN <<"nl", "nl", "---", "nl", "nl", "footer">>
    ELSE <<>>

\* final_report of finalize_summary
FinalReport(cfg, raw, gathered, executed) ==
    LET generated_report == StandardizeSources(MaybeStripThinking(cfg, raw))
    IN  generated_report
            \o SourcesSection(generated_report, UniqueSources(gathered, executed))
            \o Footer(generated_report)

(***************************************************************************)
(* Tool manager, tool-server integration and MCP client                    *)
(*                                                                         *)
(* aiohttp.ClientSession objects are numbered in the order of creation;    *)
(* a "world" record [sessions, open, count] carries the entry of           *)
(* self.sessions, the set of open sessions and the number created.         *)
(***************************************************************************)
\* the tools load_default_research_tools registers
DefaultTools == {"web_search", "fetch_url_content", "arxiv_search"}

\* tools registered afterwards with register_custom_tool
CustomTools == {"mcp_tool", "module_tool", "api_tool"}

\* ToolSpec.tool_type of a registered tool
ToolTypeOf(name) ==
    CASE name \in {"web_search", "fetch_url_content"} -> "function"
      [] name = "arxiv_search" -> "openwebui_server"
      [] name = "mcp_tool"     -> "mcp_tool"
      [] name = "module_tool"  -> "python_module"
      [] OTHER                 -> "external_api"

\* tool_functions after register_tool_server: one key per operation of the
\* OpenAPI document, with the operationId or the generated name
ServerTools == {"server:0_tool_search_papers_post", "server:0_post__papers"}

\* the function name bound into the tool function of a key
FunctionNameOf(key) ==
    IF key = "server:0_tool_search_papers_post"
    THEN "tool_search_papers_post"
    ELSE "post__papers"

\* operationId values declared in the OpenAPI document
DeclaredOperationIds == {"tool_search_papers_post"}

\* _find_operation_by_id: compares with the declared operationId only
find_operation_by_id(operation_id) == operation_id \in DeclaredOperationIds

\* names execute_tool is called with
ToolNames == DefaultTools \cup CustomTools \cup ServerTools \cup {"unknown_tool"}

\* what the surroundings do during one execute_tool call: the event loop
\* checks, the HTTP request to the tool server, and the external call behind
\* a built-in, module, API or MCP tool
ToolEnvs ==
    [loop : {"closed_at_execute_tool", "closed_at_tool_server",
             "closed_before_request"},
     http : {"ok"}, ext : {"ok"}]
    \cup
    [loop : {"running"},
     http : {"ok", "status_error", "connection_error", "loop_error", "other_error"},
     ext : {"ok"}]
    \cup
    [loop : {"running"}, http : {"ok"}, ext : {"fail"}]

\* a call that did not go to the tool server
NoServerCall(w) ==
    [raised |-> FALSE, class |-> "none", keyword |-> FALSE, world |-> w,
     server_called |-> FALSE, requests |-> 0, opened |-> {}]

\* variant: the cleanup drops the entry and leaves the session open
Cleanup_DeleteOnly(w) == [w EXCEPT !.sessions = 0]

\* the cleanup of _execute_tool_server's outer except branch: close the
\* session stored for the server, delete the entry
Cleanup(w) == [w EXCEPT !.open = w.open \ {w.sessions}, !.sessions = 0]

\* _execute_tool_server.  class and keyword describe the exception raised:
\* its type, and whether its text holds one of "event loop", "cannot write",
\* "connection", "closed"
execute_tool_server(function_name, w, env) ==
    LET recreated == [sessions |-> w.count + 1,
                      open |-> (w.open \ {w.sessions}) \cup {w.count + 1},
                      count |-> w.count + 1]
        Raise(world, class, keyword, requests) ==
            [raised |-> TRUE, class |-> class, keyword |-> keyword,
             world |-> Cleanup(world), server_called |-> TRUE,
             requests |-> requests, opened |-> (w.count + 1)..world.count]
    IN  IF env.loop = "closed_at_tool_server"
        THEN Raise(w, "RuntimeError", TRUE, 0)
        ELSE IF ~find_operation_by_id(function_name)
        THEN Raise(w, "ValueError", FALSE, 0)
        ELSE IF env.loop = "closed_before_request"
        THEN Raise(recreated, "RuntimeError", TRUE, 0)
        ELSE CASE env.http = "ok" ->
                    [raised |-> FALSE, class |-> "none", keyword |-> FALSE,
                     world |-> [recreated EXCEPT
                                   !.open = recreated.open \ {recreated.sessions},
                                   !.sessions = 0],
                     server_called |-> TRUE, requests |-> 1,
                     opened |-> {recreated.sessions}]
               [] env.http = "status_error" ->
                    Raise(recreated, "RuntimeError", FALSE, 1)
               [] env.http \in {"connection_error", "loop_error"} ->
                    Raise(recreated, "RuntimeError", TRUE, 1)
               [] OTHER ->
                    Raise(recreated, "Exception", FALSE, 1)

\* OpenWebUIToolIntegration.execute_tool
integration_execute_tool(tool_name, functions, w, env) ==
    IF tool_name \notin functions
    THEN [NoServerCall(w) EXCEPT !.raised = TRUE, !.class = "ValueError"]
    ELSE IF env.loop = "closed_at_execute_tool"
    THEN [NoServerCall(w) EXCEPT !.raised = TRUE, !.class = "RuntimeError",
                                 !.keyword = TRUE]
    ELSE execute_tool_server(FunctionNameOf(tool_name), w, env)

\* MCPClient.connect: a new ClientSession is stored in self.session; tool
\* discovery falls back to the default tools and does not fail the connect
MCPClient_connect(c) ==
    [c EXCEPT !.session = c.count + 1,
              !.open = c.open \cup {c.count + 1},
              !.count = c.count + 1,
              !.connected = TRUE]

\* MCPClient.disconnect: closes the session stored in self.session
MCPClient_disconnect(c) ==
    IF c.session # 0
    THEN [c EXCEPT !.open = c.open \ {c.session}, !.session = 0,
                   !.connected = FALSE]
    ELSE [c EXCEPT !.connected = FALSE]

\* create_mcp_client: a new client, connected
create_mcp_client(w) ==
    MCPClient_connect([session |-> 0, connected |-> FALSE,
                       open |-> w.open, count |-> w.count])

\* _execute_mcp_tool: create_mcp_client, then `async with client` around
\* call_tool, which enters with connect and leaves with disconnect
execute_mcp_tool(w, env) ==
    LET client == create_mcp_client(w)
        entered == MCPClient_connect(client)
        left == MCPClient_disconnect(entered)
    IN  [raised |-> env.ext = "fail",
         class |-> IF env.ext = "fail" THEN "RuntimeError" ELSE "none",
         keyword |-> FALSE,
         world |-> [w EXCEPT !.open = left.open, !.count = left.count],
         server_called |-> FALSE, requests |-> 0,
         opened |-> (w.count + 1)..left.count]

\* _execute_external_api_tool: `async with aiohttp.ClientSession()` opens a
\* session and closes it on both ways out
execute_external_api_tool(w, env) ==
    [raised |-> env.ext = "fail",
     class |-> IF env.ext = "fail" THEN "RuntimeError" ELSE "none",
     keyword |-> FALSE,
     world |-> [w EXCEPT !.count = w.count + 1],
     server_called |-> FALSE, requests |-> 0,
     opened |-> {w.count + 1}]

\* _execute_web_search_tool: web_search_only has caught what the endpoint
\* raised, the tool returns the dict with the (empty) result list
execute_web_search_tool(env) ==
    LET found == web_search_only([raises |-> env.ext = "fail", results |-> <<SrcA>>])
    IN  [raised |-> found.raised,
         result |-> IF found.results = <<>> THEN "empty_results" ELSE "results"]

\* _execute_url_fetch_tool: fetch_url_content_directly returns None when the
\* fetch fails, the tool returns the dict {"error": ...}
execute_url_fetch_tool(env) ==
    [raised |-> FALSE,
     result |-> IF env.ext = "fail" THEN "error_dict" ELSE "content"]

\* the body of execute_tool's try block: it returns a ToolExecution
\* (raised = FALSE) or lets an exception out (raised = TRUE)
ToolBody(tool_name, registered, initialized, functions, w, env) ==
    LET Returned(success, error, result, r) ==
            [raised |-> FALSE, success |-> success, error |-> error,
             result |-> result, world |-> r.world,
             server_called |-> r.server_called, requests |-> r.requests,
             opened |-> r.opened]
        Raised(r) ==
            [raised |-> TRUE, success |-> FALSE, error |-> "exception",
             result |-> "none", world |-> r.world,
             server_called |-> r.server_called, requests |-> r.requests,
             opened |-> r.opened]
        Of(r) == IF r.raised THEN Raised(r) ELSE Returned(TRUE, "", "data", r)
        none == NoServerCall(w)
    IN  IF tool_name \notin registered
        THEN IF initialized
             THEN LET r == integration_execute_tool(tool_name, functions, w, env)
                  IN  IF ~r.raised THEN Returned(TRUE, "", "data", r)
                      ELSE IF r.class = "RuntimeError" /\ r.keyword
                      THEN Returned(FALSE, "event_loop_issue", "none", r)
                      ELSE Returned(FALSE, "not_found", "none", r)
             ELSE Returned(FALSE, "not_found", "none", none)
        ELSE CASE ToolTypeOf(tool_name) = "function" ->
                    LET t == IF tool_name = "web_search"
                             THEN execute_web_search_tool(env)
                             ELSE execute_url_fetch_tool(env)
                    IN  IF t.raised THEN Raised(none)
                        ELSE Returned(TRUE, "", t.result, none)
               [] ToolTypeOf(tool_name) = "openwebui_server" ->
                    IF initialized
                    THEN Of(integration_execute_tool(
                                "server:0_tool_search_papers_post", functions, w, env))
                    ELSE Returned(FALSE, "not_initialized", "none", none)
               [] ToolTypeOf(tool_name) = "mcp_tool" ->
                    Of(execute_mcp_tool(w, env))
               [] ToolTypeOf(tool_name) = "python_module" ->
                    IF env.ext = "fail" THEN Raised(none)
                    ELSE Returned(TRUE, "", "data", none)
               [] OTHER ->
                    Of(execute_external_api_tool(w, env))

\* variant: the except branch of execute_tool lets the exception through
ToolExecution_Reraises(body) ==
    [success |-> body.success, error |-> body.error, result |-> body.result,
     raised |-> body.raised]

\* the ToolExecution execute_tool hands to its caller: the one its body
\* returned, or the one its except branch builds from the exception
ToolExecution(body) ==
    IF body.raised
    THEN [success |-> FALSE, error |-> "exception", result |-> "none",
          raised |-> FALSE]
    ELSE [success |-> body.success, error |-> body.error, result |-> body.result,
          raised |-> FALSE]

NoExecution ==
    [tool |-> "none", calls |-> 0, success |-> FALSE, error |-> "",
     result |-> "none", raised |-> FALSE, known |-> FALSE, served |-> FALSE,
     external_failed |-> FALSE, invalidated |-> FALSE,
     server_called |-> FALSE, requests |-> 0, opened |-> {}]

\* no session is inside _tool_enhanced_research_async
NoResearchers ==
    [s \in {1, 2} |-> [at |-> "idle", saw |-> {}, registered |-> FALSE]]

(***************************************************************************)
(* The graph                                                               *)
(***************************************************************************)
Nodes ==
    {"classify_intent", "fetch_url_content", "tool_enhanced_research",
     "generate_query", "web_research", "summarize_sources",
     "generate_verification_questions", "verify_research_claims",
     "synthesize_with_verification", "reflect_on_summary", "finalize_summary"}

Configurations ==
    [max_web_research_loops : MinConfigured..MaxConfigured,
     search_api : {"searxng", "mcp"},
     strip_thinking_tokens : BOOLEAN]

\* what the intent classifier does: the routing strategy it returns, or raise
ClassifierOutcomes == {"web_search", "url_fetch", "raise"}

NoCall == [op |-> "none"]

\* a fresh SummaryState for the topic, and builder.add_edge(START, "classify_intent")
Init ==
    /\ research_topic \in Topics
    /\ config \in Configurations
    /\ input_analysis = EmptyAnalysis
    /\ search_strategy = "web_search"
    /\ search_query = None
    /\ web_research_results = <<>>
    /\ sources_gathered = <<>>
    /\ research_loop_count = 0
    /\ running_summary = None
    /\ verification_questions = <<>>
    /\ verification_results = <<>>
    /\ tool_results = <<>>
    /\ enhanced_context = <<>>
    /\ pc = "classify_intent"
    /\ trace = <<>>
    /\ last_search = NoSearch
    /\ last_reflection = "none"
    /\ fn = NoCall
    /\ tools = DefaultTools
    /\ openwebui_initialized = FALSE
    /\ tool_functions = {}
    /\ sessions = 0
    /\ open_sessions = {}
    /\ session_count = 0
    /\ last_execution = NoExecution
    /\ tool_servers = 0
    /\ researchers = NoResearchers

\* the graph runs node `name` next
Enter(name) ==
    /\ pc = name
    /\ Len(trace) < MaxSteps
    /\ trace' = Append(trace, name)
    /\ fn' = fn
    /\ UNCHANGED tool_vars

direct_request ==
    search_strategy = "url_fetch" /\ input_analysis.direct_fetch

classify_intent ==
    /\ Enter("classify_intent")
    /\ \E outcome \in ClassifierOutcomes :
         LET analysis == analyze_user_input(research_topic)
             strategy == ClassifyStrategy(analysis, outcome)
         IN  /\ input_analysis' = analysis
             /\ search_strategy' = strategy
             /\ pc' = route_after_intent(strategy)
    /\ UNCHANGED <<research_topic, search_query, web_research_results,
                   sources_gathered, research_loop_count, running_summary,
                   verification_questions, verification_results, tool_results,
                   enhanced_context, config, last_search, last_reflection>>

\* the page fetch_url_content_directly returns
FetchedPage == [title |-> "Content from", url |-> "URL"]

\* fetch_url_content.  When a page came back the node formats it and then
\* prints len(url_content.get('content', ''))[:50] (line 491): the subscript of
\* an int raises TypeError inside the try, so the return with the page is
\* never reached and the except branch returns the empty lists.  (The call
\* at line 477 also passes is_arxiv and arxiv_id, which utils.py's
\* fetch_url_content_directly(url) does not take: that TypeError ends in the
\* same except branch.)  last_search records whether the page could be
\* fetched and whether the except branch ran.
fetch_url_content ==
    /\ Enter("fetch_url_content")
    /\ \E fetched \in BOOLEAN :
         LET print_raises == TRUE
         IN  /\ IF input_analysis.url # "None" /\ fetched /\ ~print_raises
                THEN /\ web_research_results' = web_research_results
                            \o << deduplicate_and_format_sources(<<FetchedPage>>) >>
                     /\ sources_gathered' = sources_gathered
                            \o << format_sources(<<FetchedPage>>) >>
                     /\ research_loop_count' = 0
                ELSE /\ web_research_results' = web_research_results \o <<>>
                     /\ sources_gathered' = sources_gathered \o <<>>
                     /\ research_loop_count' = research_loop_count
             /\ last_search' =
                    IF input_analysis.url = "None" THEN last_search
                    ELSE [NoSearch EXCEPT !.strategy = "direct_fetch",
                                          !.fetched = fetched,
                                          !.excepted = fetched /\ print_raises]
    /\ pc' = route_after_url_fetch(input_analysis)
    /\ UNCHANGED <<research_topic, input_analysis, search_strategy, search_query,
                   running_summary, verification_questions, verification_results,
                   tool_results, enhanced_context, config, last_reflection>>

tool_enhanced_research ==
    /\ Enter("tool_enhanced_research")
    /\ \E run \in ToolRuns :
         /\ tool_results' = tool_results \o run.tool_results
         /\ enhanced_context' = run.enhanced_context
    /\ pc' = "generate_query"
    /\ UNCHANGED <<research_topic, input_analysis, search_strategy, search_query,
                   web_research_results, sources_gathered, research_loop_count,
                   running_summary, verification_questions, verification_results,
                   config, last_search, last_reflection>>

generate_query ==
    /\ Enter("generate_query")
    /\ \E raw \in JsonResponses :
         search_query' = GenerateQueryResult(config, raw)
    /\ pc' = "web_research"
    /\ UNCHANGED <<research_topic, input_analysis, search_strategy,
                   web_research_results, sources_gathered, research_loop_count,
                   running_summary, verification_questions, verification_results,
                   tool_results, enhanced_context, config, last_search,
                   last_reflection>>

\* variant: web_research returns the count of a session that starts over
IncrementedLoopCount_StartsOver(count) == 1

\* variant: web_research returns the count it was given
IncrementedLoopCount_Same(count) == count

\* research_loop_count as web_research returns it, on both of its paths
IncrementedLoopCount(count) == count + 1

\* the strategy web_research hands to the coordinator
CoordinatorStrategy(cfg) ==
    IF cfg.search_api = "mcp" THEN "mcp" ELSE "web_search"

\* web_research.  format_raises: formatting the result set raises (a result
\* whose text is None), which like a raising coordinator takes the node to its
\* except branch and a second searxng_search.
web_research ==
    /\ Enter("web_research")
    /\ \E outcome \in EndpointOutcomes, fallback_outcome \in EndpointOutcomes,
          format_raises \in BOOLEAN :
         LET found == parallel_search_coordinator(
                          CoordinatorStrategy(config), outcome, fallback_outcome)
             excepted == \/ found.raised
                         \/ (format_raises /\ found.results # <<>>)
             search_results == IF excepted
                               THEN searxng_search(fallback_outcome).results
                               ELSE found.results
         IN  /\ sources_gathered' = sources_gathered
                    \o << format_sources(search_results) >>
             /\ web_research_results' = web_research_results
                    \o << deduplicate_and_format_sources(search_results) >>
             /\ last_search' = [strategy |-> found.strategy,
                                endpoint_failed |-> found.endpoint_failed,
                                fallback_calls |-> found.fallback_calls,
                                raised |-> found.raised,
                                excepted |-> excepted,
                                fetched |-> FALSE]
    /\ research_loop_count' = IncrementedLoopCount(research_loop_count)
    /\ pc' = "summarize_sources"
    /\ UNCHANGED <<research_topic, input_analysis, search_strategy, search_query,
                   running_summary, verification_questions, verification_results,
                   tool_results, enhanced_context, config, last_reflection>>

summarize_sources ==
    /\ Enter("summarize_sources")
    /\ \E raw \in SummaryTexts :
         running_summary' = MaybeStripThinking(config, raw)
    /\ pc' = route_after_summarize(search_strategy, input_analysis)
    /\ UNCHANGED <<research_topic, input_analysis, search_strategy, search_query,
                   web_research_results, sources_gathered, research_loop_count,
                   verification_questions, verification_results, tool_results,
                   enhanced_context, config, last_search, last_reflection>>

\* variant: the node's return also carries SummaryState's default analysis
generate_verification_questions_ResetsAnalysis ==
    /\ Enter("generate_verification_questions")
    /\ verification_questions' = verification_questions \o <<>>
    /\ input_analysis' = EmptyAnalysis
    /\ pc' = "verify_research_claims"
    /\ UNCHANGED <<research_topic, search_strategy, search_query,
                   web_research_results, sources_gathered, research_loop_count,
                   running_summary, verification_results, tool_results,
                   enhanced_context, config, last_search, last_reflection>>

\* generate_verification_questions returns before it asks the LLM
generate_verification_questions ==
    /\ Enter("generate_verification_questions")
    /\ verification_questions' = verification_questions \o <<>>
    /\ pc' = "verify_research_claims"
    /\ UNCHANGED <<research_topic, input_analysis, search_strategy, search_query,
                   web_research_results, sources_gathered, research_loop_count,
                   running_summary, verification_results, tool_results,
                   enhanced_context, config, last_search, last_reflection>>

\* variant: the loop ends at the first question whose search raises
RECURSIVE VerifyQuestions_StopsAtFailure(_, _)
VerifyQuestions_StopsAtFailure(questions, attempts) ==
    IF questions = <<>> \/ attempts = <<>> THEN <<>>
    ELSE LET found == parallel_search_coordinator(
                          "web_search", attempts[1].outcome, attempts[1].outcome)
         IN  IF found.raised \/ (attempts[1].format_raises /\ found.results # <<>>)
             THEN <<>>
             ELSE << [question |-> questions[1],
                      search_results |-> deduplicate_and_format_sources(found.results),
                      sources |-> format_sources(found.results)] >>
                      \o VerifyQuestions_StopsAtFailure(Tail(questions), Tail(attempts))

\* the loop of verify_research_claims over the questions it is given: an
\* attempt is what the search endpoint does and whether formatting the result
\* set raises (a result whose text is None); an attempt that raises leaves no
\* entry and the loop goes on
RECURSIVE VerifyQuestions(_, _)
VerifyQuestions(questions, attempts) ==
    IF questions = <<>> \/ attempts = <<>> THEN <<>>
    ELSE LET found == parallel_search_coordinator(
                          "web_search", attempts[1].outcome, attempts[1].outcome)
         IN  IF found.raised \/ (attempts[1].format_raises /\ found.results # <<>>)
             THEN VerifyQuestions(Tail(questions), Tail(attempts))
             ELSE << [question |-> questions[1],
                      search_results |-> deduplicate_and_format_sources(found.results),
                      sources |-> format_sources(found.results)] >>
                      \o VerifyQuestions(Tail(questions), Tail(attempts))

\* what verify_research_claims returns as verification_results
VerificationResults(direct, questions, attempts) ==
    IF direct \/ questions = <<>> THEN <<>>
    ELSE VerifyQuestions(SubSeq(questions, 1, Min(3, Len(questions))), attempts)

\* what happens at one question of verify_research_claims
VerifyAttempts == [outcome : EndpointOutcomes, format_raises : BOOLEAN]

verify_research_claims ==
    /\ Enter("verify_research_claims")
    /\ IF direct_request \/ verification_questions = <<>>
       THEN verification_results' = verification_results
                \o VerificationResults(direct_request, verification_questions, <<>>)
       ELSE \E a1 \in VerifyAttempts, a2 \in VerifyAttempts, a3 \in VerifyAttempts :
              verification_results' = verification_results
                  \o VerificationResults(direct_request, verification_questions,
                                         <<a1, a2, a3>>)
    /\ pc' = "synthesize_with_verification"
    /\ UNCHANGED <<research_topic, input_analysis, search_strategy, search_query,
                   web_research_results, sources_gathered, research_loop_count,
                   running_summary, verification_questions, tool_results,
                   enhanced_context, config, last_search, last_reflection>>

\* variant: the node asks the LLM also when there are no verification results
synthesize_with_verification_AlwaysAsks ==
    /\ Enter("synthesize_with_verification")
    /\ IF direct_request
       THEN running_summary' = running_summary
       ELSE \E raw \in SummaryTexts :
              running_summary' = MaybeStripThinking(config, raw)
    /\ pc' = "reflect_on_summary"
    /\ UNCHANGED <<research_topic, input_analysis, search_strategy, search_query,
                   web_research_results, sources_gathered, research_loop_count,
                   verification_questions, verification_results, tool_results,
                   enhanced_context, config, last_search, last_reflection>>

synthesize_with_verification ==
    /\ Enter("synthesize_with_verification")
    /\ IF direct_request \/ verification_results = <<>>
       THEN running_summary' = running_summary
       ELSE \E raw \in SummaryTexts :
              running_summary' = MaybeStripThinking(config, raw)
    /\ pc' = "reflect_on_summary"
    /\ UNCHANGED <<research_topic, input_analysis, search_strategy, search_query,
                   web_research_results, sources_gathered, research_loop_count,
                   verification_questions, verification_results, tool_results,
                   enhanced_context, config, last_search, last_reflection>>

reflect_on_summary ==
    /\ Enter("reflect_on_summary")
    /\ IF direct_request
       THEN /\ search_query' = <<>>
            /\ last_reflection' = "skipped"
       ELSE \E raw \in JsonResponses :
              /\ search_query' = ReflectionQuery(ReflectionVerdict(raw), research_topic)
              /\ last_reflection' = ReflectionVerdict(raw)
    /\ pc' = route_research(search_strategy, input_analysis, research_loop_count,
                            config.max_web_research_loops)
    /\ UNCHANGED <<research_topic, input_analysis, search_strategy,
                   web_research_results, sources_gathered, research_loop_count,
                   running_summary, verification_questions, verification_results,
                   tool_results, enhanced_context, config, last_search>>

finalize_summary ==
    /\ Enter("finalize_summary")
    /\ \E raw \in Reports :
         running_summary' = FinalReport(config, raw, sources_gathered, tool_results)
    /\ pc' = "END"
    /\ UNCHANGED <<research_topic, input_analysis, search_strategy, search_query,
                   web_research_results, sources_gathered, research_loop_count,
                   verification_questions, verification_results, tool_results,
                   enhanced_context, config, last_search, last_reflection>>

Next ==
    \/ classify_intent
    \/ fetch_url_content
    \/ tool_enhanced_research
    \/ generate_query
    \/ web_research
    \/ summarize_sources
    \/ generate_verification_questions
    \/ verify_research_claims
    \/ synthesize_with_verification
    \/ reflect_on_summary
    \/ finalize_summary

Spec == Init /\ [][Next]_vars

(***************************************************************************)
(* route_research as a function of its inputs                              *)
(***************************************************************************)
RouteInputs ==
    [op : {"route_research"},
     strategy : {"web_search", "url_fetch"},
     direct_fetch : BOOLEAN,
     loop_count : 0..MaxLoopArg,
     configured : MinConfigured..MaxConfigured,
     result : {"pending"}]

InitRoute ==
    /\ research_topic = <<"what", "is", "quantum">>
    /\ config = [max_web_research_loops |-> MaxConfigured,
                 search_api |-> "searxng",
                 strip_thinking_tokens |-> TRUE]
    /\ input_analysis = EmptyAnalysis
    /\ search_strategy = "web_search"
    /\ search_query = None
    /\ web_research_results = <<>>
    /\ sources_gathered = <<>>
    /\ research_loop_count = 0
    /\ running_summary = None
    /\ verification_questions = <<>>
    /\ verification_results = <<>>
    /\ tool_results = <<>>
    /\ enhanced_context = <<>>
    /\ pc = "reflect_on_summary"
    /\ trace = <<>>
    /\ last_search = NoSearch
    /\ last_reflection = "none"
    /\ fn \in RouteInputs
    /\ tools = DefaultTools
    /\ openwebui_initialized = FALSE
    /\ tool_functions = {}
    /\ sessions = 0
    /\ open_sessions = {}
    /\ session_count = 0
    /\ last_execution = NoExecution
    /\ tool_servers = 0
    /\ researchers = NoResearchers

RouteResearchCall ==
    /\ fn.op = "route_research"
    /\ fn.result = "pending"
    /\ fn' = [fn EXCEPT !.result =
                 route_research(fn.strategy,
                                [EmptyAnalysis EXCEPT !.direct_fetch = fn.direct_fetch],
                                fn.loop_count, fn.configured)]
    /\ UNCHANGED session_vars
    /\ UNCHANGED tool_vars

NextRoute == RouteResearchCall

SpecRoute == InitRoute /\ [][NextRoute]_vars

(***************************************************************************)
(* The tool manager as tool_enhanced_research drives it: the integration   *)
(* is initialized, tools are executed one after the other                  *)
(***************************************************************************)
InitTools ==
    /\ research_topic = <<"what", "is", "quantum">>
    /\ config = [max_web_research_loops |-> MaxConfigured,
                 search_api |-> "searxng",
                 strip_thinking_tokens |-> TRUE]
    /\ input_analysis = EmptyAnalysis
    /\ search_strategy = "web_search"
    /\ search_query = None
    /\ web_research_results = <<>>
    /\ sources_gathered = <<>>
    /\ research_loop_count = 0
    /\ running_summary = None
    /\ verification_questions = <<>>
    /\ verification_results = <<>>
    /\ tool_results = <<>>
    /\ enhanced_context = <<>>
    /\ pc = "tool_enhanced_research"
    /\ trace = <<>>
    /\ last_search = NoSearch
    /\ last_reflection = "none"
    /\ fn = NoCall
    /\ tools \in {DefaultTools, DefaultTools \cup CustomTools}
    /\ openwebui_initialized = FALSE
    /\ tool_functions = {}
    /\ sessions = 0
    /\ open_sessions = {}
    /\ session_count = 0
    /\ last_execution = NoExecution
    /\ tool_servers = 0
    /\ researchers = NoResearchers

\* initialize_openwebui_integration, called while the integration is not
\* initialized: register_tool_server asks the server for its OpenAPI
\* document with a new session, which it keeps in self.sessions when the
\* answer is 200 and closes otherwise
initialize_openwebui_integration ==
    /\ ~openwebui_initialized
    /\ session_count < MaxCalls
    /\ \E answered \in BOOLEAN :
         /\ session_count' = session_count + 1
         /\ IF answered
            THEN /\ sessions' = session_count + 1
                 /\ open_sessions' = open_sessions \cup {session_count + 1}
                 /\ tool_functions' = ServerTools
                 /\ tool_servers' = tool_servers + 1
                 /\ openwebui_initialized' = TRUE
            ELSE UNCHANGED <<sessions, open_sessions, tool_functions,
                             tool_servers, openwebui_initialized>>
    /\ UNCHANGED <<tools, last_execution, fn, researchers>>
    /\ UNCHANGED session_vars

\* ToolManager.execute_tool
execute_tool ==
    /\ last_execution.calls < MaxCalls
    /\ \E tool_name \in ToolNames, env \in ToolEnvs :
         LET w == [sessions |-> sessions, open |-> open_sessions,
                   count |-> session_count]
             body == ToolBody(tool_name, tools, openwebui_initialized,
                              tool_functions, w, env)
             execution == ToolExecution(body)
         IN  /\ sessions' = body.world.sessions
             /\ open_sessions' = body.world.open
             /\ session_count' = body.world.count
             /\ last_execution' =
                    [tool |-> tool_name,
                     calls |-> last_execution.calls + 1,
                     success |-> execution.success,
                     error |-> execution.error,
                     result |-> execution.result,
                     raised |-> execution.raised,
                     known |-> tool_name \in tools,
                     served |-> openwebui_initialized /\ tool_name \in tool_functions,
                     external_failed |-> env.ext = "fail",
                     invalidated |-> /\ body.requests > 0
                                     /\ env.http \in {"connection_error", "loop_error"},
                     server_called |-> body.server_called,
                     requests |-> body.requests,
                     opened |-> body.opened]
    /\ UNCHANGED <<tools, openwebui_initialized, tool_functions, fn,
                   tool_servers, researchers>>
    /\ UNCHANGED session_vars

NextTools ==
    \/ initialize_openwebui_integration
    \/ execute_tool

SpecTools == InitTools /\ [][NextTools]_vars

(***************************************************************************)
(* deduplicate_and_format_sources and the source list of finalize_summary  *)
(* as functions of their inputs                                            *)
(***************************************************************************)
\* sequences over S of length 0..n
SeqsUpTo(S, n) == UNION {[1..k -> S] : k \in 0..n}

\* search results: two URLs, each under two titles
DedupSources == [title : {"tA", "tB"}, url : {"https://a", "https://b"}]

DedupInputs ==
    [op : {"deduplicate_and_format_sources"},
     input : SeqsUpTo(DedupSources, MaxSources),
     done : {FALSE}]

\* a second result for the URL of SrcA, under another title
SrcA2 == [title |-> "tA2", url |-> "https://a"]

\* a search result for the paper the ArXiv tool returns
SrcP == [title |-> "tP", url |-> "https://arxiv.org/p"]

\* result sets of the web_research executions of a session
SessionResultSets == { <<>>, <<SrcA, SrcB>>, <<SrcA2>>, <<SrcP>> }

UniqueSourcesInputs ==
    [op : {"unique_sources"},
     gathered : SeqsUpTo({format_sources(r) : r \in SessionResultSets}, 2),
     tool_results : {<<>>, <<ArxivToolResult>>, <<WebSearchToolResult, ArxivToolResult>>},
     done : {FALSE}]

InitSources ==
    /\ research_topic = <<"what", "is", "quantum">>
    /\ config = [max_web_research_loops |-> MaxConfigured,
                 search_api |-> "searxng",
                 strip_thinking_tokens |-> TRUE]
    /\ input_analysis = EmptyAnalysis
    /\ search_strategy = "web_search"
    /\ search_query = None
    /\ web_research_results = <<>>
    /\ sources_gathered = <<>>
    /\ research_loop_count = 0
    /\ running_summary = None
    /\ verification_questions = <<>>
    /\ verification_results = <<>>
    /\ tool_results = <<>>
    /\ enhanced_context = <<>>
    /\ pc = "finalize_summary"
    /\ trace = <<>>
    /\ last_search = NoSearch
    /\ last_reflection = "none"
    /\ fn \in DedupInputs \cup UniqueSourcesInputs
    /\ tools = DefaultTools
    /\ openwebui_initialized = FALSE
    /\ tool_functions = {}
    /\ sessions = 0
    /\ open_sessions = {}
    /\ session_count = 0
    /\ last_execution = NoExecution
    /\ tool_servers = 0
    /\ researchers = NoResearchers

DeduplicateCall ==
    /\ fn.op = "deduplicate_and_format_sources"
    /\ ~fn.done
    /\ fn' = [op |-> fn.op, input |-> fn.input, done |-> TRUE,
              result |-> deduplicate_and_format_sources(fn.input)]
    /\ UNCHANGED session_vars
    /\ UNCHANGED tool_vars

UniqueSourcesCall ==
    /\ fn.op = "unique_sources"
    /\ ~fn.done
    /\ fn' = [op |-> fn.op, gathered |-> fn.gathered,
              tool_results |-> fn.tool_results, done |-> TRUE,
              result |-> UniqueSources(fn.gathered, fn.tool_results)]
    /\ UNCHANGED session_vars
    /\ UNCHANGED tool_vars

NextSources ==
    \/ DeduplicateCall
    \/ UniqueSourcesCall

SpecSources == InitSources /\ [][NextSources]_vars

(***************************************************************************)
(* The JSON handling of generate_query and reflect_on_summary as functions *)
(* of the LLM answer                                                       *)
(***************************************************************************)
RawTokens ==
    {"ws", "noise", "{", "}", "query", "suff", "lit", "<think>", "</think>"}

\* texts on which the loop of strip_thinking_tokens comes to an end: in every
\* round the first <think> stands in front of the first </think>
RECURSIVE ThinkTagsOrdered(_)
ThinkTagsOrdered(text) ==
    IF Find(text, "<think>") >= 0 /\ Find(text, "</think>") >= 0
    THEN /\ Find(text, "<think>") < Find(text, "</think>")
         /\ ThinkTagsOrdered(
                Slice(text, 0, Find(text, "<think>"))
                    \o Slice(text, Find(text, "</think>") + 1, Len(text)))
    ELSE TRUE

\* LLM answers for which generate_query returns: the text and the part of it
\* handed to strip_thinking_tokens have their tags in order
RawResponses ==
    {raw \in SeqsUpTo(RawTokens, MaxRawLen) :
        ThinkTagsOrdered(raw) /\ ThinkTagsOrdered(ExtractJson(raw))}

JsonInputs ==
    [op : {"generate_query", "reflect_on_summary"},
     raw : RawResponses,
     strip : BOOLEAN,
     topic : {<<"what", "is", "quantum">>},
     done : {FALSE}]

InitJson ==
    /\ research_topic = <<"what", "is", "quantum">>
    /\ config = [max_web_research_loops |-> MaxConfigured,
                 search_api |-> "searxng",
                 strip_thinking_tokens |-> TRUE]
    /\ input_analysis = EmptyAnalysis
    /\ search_strategy = "web_search"
    /\ search_query = None
    /\ web_research_results = <<>>
    /\ sources_gathered = <<>>
    /\ research_loop_count = 0
    /\ running_summary = None
    /\ verification_questions = <<>>
    /\ verification_results = <<>>
    /\ tool_results = <<>>
    /\ enhanced_context = <<>>
    /\ pc = "generate_query"
    /\ trace = <<>>
    /\ last_search = NoSearch
    /\ last_reflection = "none"
    /\ fn \in JsonInputs
    /\ tools = DefaultTools
    /\ openwebui_initialized = FALSE
    /\ tool_functions = {}
    /\ sessions = 0
    /\ open_sessions = {}
    /\ session_count = 0
    /\ last_execution = NoExecution
    /\ tool_servers = 0
    /\ researchers = NoResearchers

GenerateQueryCall ==
    /\ fn.op = "generate_query"
    /\ ~fn.done
    /\ fn' = [op |-> fn.op, raw |-> fn.raw, strip |-> fn.strip,
              topic |-> fn.topic, done |-> TRUE,
              parsed |-> ExtractJson(fn.raw),
              loaded |-> JsonLoads(ExtractJson(fn.raw)),
              result |-> GenerateQueryResult(
                             [config EXCEPT !.strip_thinking_tokens = fn.strip],
                             fn.raw)]
    /\ UNCHANGED session_vars
    /\ UNCHANGED tool_vars

ReflectOnSummaryCall ==
    /\ fn.op = "reflect_on_summary"
    /\ ~fn.done
    /\ fn' = [op |-> fn.op, raw |-> fn.raw, strip |-> fn.strip,
              topic |-> fn.topic, done |-> TRUE,
              parsed |-> ExtractJson(fn.raw),
              loaded |-> JsonLoads(ExtractJson(fn.raw)),
              result |-> ReflectionQuery(ReflectionVerdict(fn.raw), fn.topic)]
    /\ UNCHANGED session_vars
    /\ UNCHANGED tool_vars

NextJson ==
    \/ GenerateQueryCall
    \/ ReflectOnSummaryCall

SpecJson == InitJson /\ [][NextJson]_vars

(***************************************************************************)
(* Properties                                                              *)
(***************************************************************************)
WebResearchRuns == Count(trace, "web_research")

Classified == trace # <<>>

SessionMaxLoops ==
    MaxLoops(search_strategy, input_analysis, config.max_web_research_loops)

\* C1: for a configured max_web_research_loops >= 0, web_research runs at
\* most maxLoops times, and research_loop_count at the end of the session is
\* at most maxLoops, the value route_research computes for the session.
C1_WebResearchWithinMaxLoops ==
    (Classified /\ config.max_web_research_loops >= 0) =>
        /\ WebResearchRuns <= SessionMaxLoops
        /\ (pc = "END" => research_loop_count <= SessionMaxLoops)

\* node executions a session with this configuration can need: three in
\* front of the loop, six per round of the loop, one to finalize
StepBound(configured) == 4 + 6 * (IF configured > 1 THEN configured ELSE 1)

C3_SufficientGoesToFinalize ==
    (trace # <<>> /\ Last(trace) = "reflect_on_summary"
        /\ last_reflection = "sufficient") =>
        /\ search_query = <<>>
        /\ pc = "finalize_summary"

VerificationNodes ==
    {"generate_verification_questions", "verify_research_claims",
     "synthesize_with_verification", "reflect_on_summary"}

\* C4: in a session with search_strategy = url_fetch and direct_fetch = true
\* no verification node and no reflection is entered, and
\* verification_questions and verification_results stay empty.
C4_DirectFetchSkipsVerification ==
    direct_request =>
        /\ pc \notin VerificationNodes
        /\ \A i \in 1..Len(trace) : trace[i] \notin VerificationNodes
        /\ verification_questions = <<>>
        /\ verification_results = <<>>

\* a direct-fetch session that summarized the page and ended
C4_Witness ==
    /\ direct_request
    /\ pc = "END"
    /\ Count(trace, "summarize_sources") = 1

\* the transitions of the state machine, as the design lists them
SpecTransitions ==
    { <<"classify_intent", "fetch_url_content">>,
      <<"classify_intent", "tool_enhanced_research">>,
      <<"fetch_url_content", "tool_enhanced_research">>,
      <<"fetch_url_content", "summarize_sources">>,
      <<"tool_enhanced_research", "generate_query">>,
      <<"generate_query", "web_research">>,
      <<"web_research", "summarize_sources">>,
      <<"summarize_sources", "generate_verification_questions">>,
      <<"summarize_sources", "finalize_summary">>,
      <<"generate_verification_questions", "verify_research_claims">>,
      <<"verify_research_claims", "synthesize_with_verification">>,
      <<"synthesize_with_verification", "reflect_on_summary">>,
      <<"reflect_on_summary", "web_research">>,
      <<"reflect_on_summary", "finalize_summary">>,
      <<"finalize_summary", "END">> }

\* the nodes run so far followed by the node that runs next
Path == trace \o <<pc>>

\* C5: consecutive nodes are always a transition of the table:
\* classify_intent is first, web_research is followed by summarize_sources,
\* reflect_on_summary comes only after the three verification nodes in
\* order, and only finalize_summary is followed by END.
C5_TransitionsInTable ==
    /\ Path[1] = "classify_intent"
    /\ \A i \in 1..(Len(Path) - 1) : <<Path[i], Path[i+1]>> \in SpecTransitions
    /\ \A i \in 1..Len(Path) :
         Path[i] = "reflect_on_summary" =>
             /\ i >= 4
             /\ Path[i-1] = "synthesize_with_verification"
             /\ Path[i-2] = "verify_research_claims"
             /\ Path[i-3] = "generate_verification_questions"

\* a finished session that went through reflection and back to web_research
C5_Witness ==
    /\ pc = "END"
    /\ \E i \in 1..(Len(trace) - 1) :
         trace[i] = "reflect_on_summary" /\ trace[i+1] = "web_research"

\* some web_research or URL fetch of the session found a source
SourceGathered ==
    \E i \in 1..Len(sources_gathered) : sources_gathered[i] # format_sources(<<>>)

\* C6: a topic without URL with max_web_research_loops = 1 runs web_research
\* once and summarize_sources once, then finalize_summary; with a source
\* gathered the report is non-empty and has a sources section.
C6_SingleLoopSession ==
    (pc = "END" /\ ~Contains(research_topic, <<"URL">>)
        /\ config.max_web_research_loops = 1) =>
        /\ Count(trace, "web_research") = 1
        /\ Count(trace, "summarize_sources") = 1
        /\ Last(trace) = "finalize_summary"
        /\ SourceGathered =>
               /\ running_summary # <<>>
               /\ Contains(running_summary, StdSources)

\* such a session whose search found sources
C6_Witness ==
    /\ pc = "END"
    /\ ~Contains(research_topic, <<"URL">>)
    /\ config.max_web_research_loops = 1
    /\ SourceGathered
    /\ Count(trace, "web_research") = 1

\* maxLoops as the design states it
StatedMaxLoops(strategy, direct, configured) ==
    CASE strategy = "url_fetch" /\ direct  -> 0
      [] strategy = "url_fetch" /\ ~direct -> IF configured < 1 THEN configured ELSE 1
      [] OTHER -> configured

\* C7: route_research returns web_research exactly when research_loop_count
\* is below maxLoops (0 for direct fetch, min(configured, 1) for other
\* url_fetch sessions, configured otherwise) and finalize_summary otherwise.
C7_RouteResearchFollowsMaxLoops ==
    (fn.op = "route_research" /\ fn.result # "pending") =>
        LET m == StatedMaxLoops(fn.strategy, fn.direct_fetch, fn.configured)
        IN  /\ (fn.result = "web_research") <=> (fn.loop_count < m)
            /\ (fn.result = "finalize_summary") <=> (fn.loop_count >= m)

\* route_research continued a url_fetch session that is no direct fetch
C7_Witness ==
    /\ fn.op = "route_research"
    /\ fn.result = "web_research"
    /\ fn.strategy = "url_fetch"
    /\ ~fn.direct_fetch

\* the direct-request phrases, written out
DirectPhrases ==
    {<<v, n>> : v \in DirectVerbsArticle, n \in DirectNouns}
        \cup {<<v, "this", n>> : v \in DirectVerbsArticle, n \in DirectNouns}
        \cup {<<w, b, t>> : w \in {"what", "how"}, b \in {"is", "does", "are"},
                            t \in {"this", "that"}}
        \cup {<<"tell", "me", "about", t>> : t \in {"this", "that"}}
        \cup {<<v, u>> : v \in DirectVerbsUrl, u \in {"URL", "WWW"}}

HasDirectPhrase(topic) == \E phrase \in DirectPhrases : Contains(topic, phrase)

\* C8: a topic without URL always gets search_strategy = web_search, whatever
\* the classifier answers and also when it raises.
C8_NoUrlIsWebSearch ==
    (Classified /\ ~Contains(research_topic, <<"URL">>)) =>
        search_strategy = "web_search"

\* a classified topic without URL that holds a direct-request phrase
C8_Witness ==
    /\ Classified
    /\ ~Contains(research_topic, <<"URL">>)
    /\ HasDirectPhrase(research_topic)

C10_FailureRetriesWebSearchOnce ==
    last_search.endpoint_failed => last_search.fallback_calls = 1

\* C11: whatever the search endpoint does, parallel_search_coordinator
\* returns a result set and does not raise, and the web_research execution
\* that called it appends one block to web_research_results and one to
\* sources_gathered, adds one to research_loop_count and is followed by
\* summarize_sources.
C11_SearchFailureKeepsSessionGoing ==
    [][pc = "web_research" =>
          /\ ~last_search'.raised
          /\ Len(web_research_results') = Len(web_research_results) + 1
          /\ Len(sources_gathered') = Len(sources_gathered) + 1
          /\ research_loop_count' = research_loop_count + 1
          /\ pc' = "summarize_sources"]_vars

\* web_research has run with a search endpoint that raised, and left the
\* block of an empty result set
C11_Witness ==
    /\ trace # <<>>
    /\ Last(trace) = "web_research"
    /\ last_search.endpoint_failed
    /\ Last(sources_gathered) = format_sources(<<>>)
    /\ pc = "summarize_sources"

\* C12: execute_tool never raises to its caller, it returns a ToolExecution
\* for every tool name; for a name that is not registered locally and not
\* served by an initialized tool server the ToolExecution has success =
\* false and a non-empty error.
C12_ExecuteToolNeverRaises ==
    last_execution.tool # "none" =>
        /\ ~last_execution.raised
        /\ (~last_execution.known /\ ~last_execution.served) =>
               (~last_execution.success /\ last_execution.error # "")

\* an unknown name was executed and reported as not found
C12_Witness ==
    /\ last_execution.tool = "unknown_tool"
    /\ ~last_execution.known
    /\ ~last_execution.served
    /\ last_execution.error = "not_found"

\* C13: when the external call behind the built-in tool web_search or
\* fetch_url_content fails, execute_tool returns a ToolExecution with
\* success = false.
C13_FailedExternalCallIsFailure ==
    (last_execution.tool \in {"web_search", "fetch_url_content"}
        /\ last_execution.external_failed) =>
        ~last_execution.success

\* C14: when the session is invalidated while _execute_tool_server sends its
\* request, the request is sent a second time before the failure is reported.
C14_InvalidatedSessionRetriesOnce ==
    last_execution.invalidated => last_execution.requests = 2

C16_McpSessionsClosed ==
    last_execution.tool = "mcp_tool" =>
        last_execution.opened \cap open_sessions = {}

\* the URLs of a list of sources, in order
UrlsOf(sources) == [i \in 1..Len(sources) |-> sources[i].url]

\* C17: deduplicate_and_format_sources emits one entry per distinct URL of
\* its input, the entry of the first source with that URL, in the order in
\* which the URLs are first met; URLs a, b, a give one entry for a, then one
\* for b.
C17_DedupKeepsFirstPerUrl ==
    (fn.op = "deduplicate_and_format_sources" /\ fn.done) =>
        LET inp == fn.input
            out == fn.result
            FirstIndex(u) ==
                CHOOSE i \in 1..Len(inp) :
                    inp[i].url = u /\ \A j \in 1..(i - 1) : inp[j].url # u
        IN  /\ {out[i].url : i \in 1..Len(out)} = {inp[i].url : i \in 1..Len(inp)}
            /\ \A i, j \in 1..Len(out) : i # j => out[i].url # out[j].url
            /\ \A i \in 1..Len(out) : out[i] = inp[FirstIndex(out[i].url)]
            /\ \A i, j \in 1..Len(out) :
                   i < j => FirstIndex(out[i].url) < FirstIndex(out[j].url)
            /\ UrlsOf(inp) = <<"https://a", "https://b", "https://a">>
                   => UrlsOf(out) = <<"https://a", "https://b">>

\* sources a, b, a, the two for a under different titles, were deduplicated
C17_Witness ==
    /\ fn.op = "deduplicate_and_format_sources"
    /\ fn.done
    /\ UrlsOf(fn.input) = <<"https://a", "https://b", "https://a">>
    /\ fn.input[1].title # fn.input[3].title
    /\ Len(fn.result) = 2

\* the URLs that occur in a line of the source list
LineUrls(line) == {line[i] : i \in 1..Len(line)} \cap UrlTokens

\* C18: in the source list finalize_summary builds from sources_gathered
\* and tool_results no URL occurs in two entries.
C18_SessionSourcesUniqueByUrl ==
    (fn.op = "unique_sources" /\ fn.done) =>
        \A i, j \in 1..Len(fn.result) :
            i # j => LineUrls(fn.result[i]) \cap LineUrls(fn.result[j]) = {}

\* C19: generate_query and reflect_on_summary strip the whitespace around
\* the LLM answer and, when the text then does not start with "{" and has a
\* "{" with a "}" behind it, parse exactly the part from the first "{" to
\* the last "}", otherwise the stripped text; an answer made of noise, an
\* object with the query and trailing noise gives that query.
C19_ParsesFirstToLastBrace ==
    (fn.op \in {"generate_query", "reflect_on_summary"} /\ fn.done) =>
        LET Text == {k \in 1..Len(fn.raw) : fn.raw[k] # "ws"}
            stripped ==
                IF Text = {} THEN <<>>
                ELSE SubSeq(fn.raw,
                            CHOOSE k \in Text : \A m \in Text : k <= m,
                            CHOOSE k \in Text : \A m \in Text : m <= k)
            Embedded(i, j) ==
                /\ stripped[i] = "{"
                /\ \A k \in 1..(i - 1) : stripped[k] # "{"
                /\ stripped[j] = "}"
                /\ \A k \in (j + 1)..Len(stripped) : stripped[k] # "}"
                /\ i < j
        IN  /\ IF stripped # <<>> /\ stripped[1] # "{"
                  /\ \E i, j \in 1..Len(stripped) : Embedded(i, j)
               THEN \E i, j \in 1..Len(stripped) :
                       Embedded(i, j) /\ fn.parsed = SubSeq(stripped, i, j)
               ELSE fn.parsed = stripped
            /\ (fn.op = "generate_query"
                   /\ stripped \in { <<"noise", "{", "query", "}">>,
                                      <<"noise", "{", "query", "}", "noise">> })
                   => fn.result = <<"generated", "query">>

\* generate_query took the query out of an object that stands behind noise
C19_Witness ==
    /\ fn.op = "generate_query"
    /\ fn.done
    /\ Len(fn.raw) > 0
    /\ fn.raw[1] = "noise"
    /\ fn.parsed = <<"{", "query", "}">>
    /\ fn.result = <<"generated", "query">>

\* the answer gave no JSON object with the key the node reads
Unparsable ==
    IF fn.op = "generate_query"
    THEN ~(fn.loaded.kind = "object" /\ fn.loaded.member = "query")
    ELSE fn.loaded.kind \in {"error", "value"}

\* C20: when the LLM answer cannot be parsed into a JSON object with the
\* expected key, generate_query and reflect_on_summary set search_query to a
\* fallback text made from the research topic.
C20_FallbackDerivedFromTopic ==
    (fn.op \in {"generate_query", "reflect_on_summary"} /\ fn.done
        /\ Unparsable) =>
        Contains(fn.result, fn.topic)

\* C21: in every state after summarize_sources has executed at least once,
\* running_summary is a non-empty string, for every answer of the LLM.
C21_SummaryNonEmptyAfterSummarize ==
    Count(trace, "summarize_sources") >= 1 =>
        (running_summary # <<>> /\ running_summary # None)

(***************************************************************************)
(* Pipeline.pipe of pipelines/data_analyst.py                              *)
(*                                                                         *)
(* The caller calls pipe and, when pipe hands back the generator of        *)
(* _stream_research, takes one text after the other from it.  Texts are    *)
(* sequences of tokens, the empty text is <<>>.                            *)
(***************************************************************************)

\* every variable of the session and of the tool manager as construction
\* leaves it; the function checks below start from here
FreshState ==
    /\ research_topic = <<"what", "is", "quantum">>
    /\ config = [max_web_research_loops |-> MaxConfigured,
                 search_api |-> "searxng",
                 strip_thinking_tokens |-> TRUE]
    /\ input_analysis = EmptyAnalysis
    /\ search_strategy = "web_search"
    /\ search_query = None
    /\ web_research_results = <<>>
    /\ sources_gathered = <<>>
    /\ research_loop_count = 0
    /\ running_summary = None
    /\ verification_questions = <<>>
    /\ verification_results = <<>>
    /\ tool_results = <<>>
    /\ enhanced_context = <<>>
    /\ pc = "classify_intent"
    /\ trace = <<>>
    /\ last_search = NoSearch
    /\ last_reflection = "none"
    /\ tools = DefaultTools
    /\ openwebui_initialized = FALSE
    /\ tool_functions = {}
    /\ sessions = 0
    /\ open_sessions = {}
    /\ session_count = 0
    /\ last_execution = NoExecution
    /\ tool_servers = 0
    /\ researchers = NoResearchers

\* the event emitter handed to pipe is None ("none"), an object that cannot
\* be called, a coroutine function that works, one that raises, or a plain
\* function whose return value is no coroutine.  With a running loop the
\* coroutine runs later as a task and only its creation can raise.

\* variant: run_async_event without its try/except
run_async_event_Propagates(emitter, loop_running) ==
    [raised |-> \/ emitter = "not_async"
                \/ (emitter = "raises" /\ ~loop_running),
     logged |-> FALSE]

\* run_async_event: whatever creating the task or asyncio.run raises is
\* caught and logged
run_async_event(emitter, loop_running) ==
    [raised |-> FALSE,
     logged |-> \/ emitter = "not_async"
                \/ (emitter = "raises" /\ ~loop_running)]

\* a run of the research graph: the node names graph.stream yields, one step
\* per node, and the step at which a node raises (0: no node raises)
GraphRuns ==
    UNION { [steps : {t}, fails_at : 0..Len(t)] :
              t \in { <<"classify_intent", "fetch_url_content",
                        "summarize_sources", "finalize_summary">>,
                      <<"classify_intent", "generate_query", "web_research",
                        "summarize_sources", "reflect_on_summary",
                        "finalize_summary">> } }

\* the except branch of _stream_research: the status event, then the error text
StreamHandler(call) ==
    IF run_async_event(call.emitter, call.loop_running).raised
    THEN [raised |-> TRUE, text |-> <<>>, pos |-> call.pos, stage |-> "closed"]
    ELSE [raised |-> FALSE, text |-> <<"Error during research:", "message">>, pos |-> call.pos,
          stage |-> "last"]

\* the body of _stream_research from the step after `pos` to its next yield
RECURSIVE StreamFrom(_, _)
StreamFrom(call, pos) ==
    LET emit == run_async_event(call.emitter, call.loop_running)
        steps == call.run.steps
    IN
    IF pos = Len(steps)
    THEN IF emit.raised THEN StreamHandler(call)
         ELSE [raised |-> FALSE, text |-> <<"# Deep Research Results", "Topic", "no summary was generated">>, pos |-> pos,
               stage |-> "last"]
    ELSE IF call.run.fails_at = pos + 1 THEN StreamHandler(call)
    ELSE IF steps[pos + 1] = "finalize_summary"
         THEN IF emit.raised THEN StreamHandler(call)
              ELSE [raised |-> FALSE, text |-> <<"# Deep Research Results", "Topic", "summary">>, pos |-> pos + 1,
                    stage |-> "last"]
    ELSE IF steps[pos + 1] \in {"generate_query", "web_research",
                              "summarize_sources", "reflect_on_summary"}
         THEN IF emit.raised THEN StreamHandler(call)
              ELSE [raised |-> FALSE, text |-> <<>>, pos |-> pos + 1,
                    stage |-> "running"]
    ELSE StreamFrom(call, pos + 1)

\* next() on the generator of _stream_research
stream_research_next(call) ==
    IF call.stage = "new"
    THEN IF run_async_event(call.emitter, call.loop_running).raised
         THEN StreamHandler(call)
         ELSE [raised |-> FALSE, text |-> <<>>, pos |-> 0, stage |-> "running"]
    ELSE IF call.stage = "running" THEN StreamFrom(call, call.pos)
    ELSE [raised |-> FALSE, text |-> <<>>, pos |-> call.pos, stage |-> "closed"]

\* _batch_research
batch_research(call) ==
    LET emit == run_async_event(call.emitter, call.loop_running)
    IN  IF emit.raised \/ call.run.fails_at # 0
        THEN [raised |-> emit.raised, text |-> <<"Error during batch research:", "message">>]
        ELSE [raised |-> FALSE, text |-> <<"# Deep Research Results", "Topic", "summary">>]

\* Pipeline.pipe up to its return: a text, or the generator not yet started
pipe_return(call) ==
    IF ~call.is_available
    THEN [raised |-> FALSE, text |-> <<"Local Deep Researcher is not available">>, stage |-> "closed"]
    ELSE IF ~call.request_ok
    THEN [raised |-> FALSE, text |-> <<"Error in Local Deep Researcher:", "message">>, stage |-> "closed"]
    ELSE IF call.stream
    THEN [raised |-> FALSE, text |-> <<>>, stage |-> "new"]
    ELSE IF batch_research(call).raised
    THEN [raised |-> FALSE, text |-> <<"Error in Local Deep Researcher:", "message">>, stage |-> "closed"]
    ELSE [raised |-> FALSE, text |-> batch_research(call).text, stage |-> "closed"]

PipeInputs ==
    [op : {"pipe"},
     is_available : BOOLEAN,
     request_ok : BOOLEAN,
     stream : BOOLEAN,
     emitter : {"none", "not_callable", "works", "raises", "not_async"},
     loop_running : BOOLEAN,
     run : GraphRuns,
     stage : {"idle"},
     pos : {0},
     output : {<<>>},
     raised : {FALSE}]

(***************************************************************************)
(* memory_client.py: the MCP subprocess and the calls made through it      *)
(*                                                                         *)
(* A line of the subprocess's stdout is a record: parses (it starts with   *)
(* "{" and json.loads accepts it), the id of the response, the member it   *)
(* carries (result, error, neither) and what result.content holds:         *)
(* "list" a text item with a JSON list, "object" one with a JSON object,   *)
(* "null" one with JSON null, "no_items" an empty content list,            *)
(* "plain_item" an item that is a string and no object.                    *)
(***************************************************************************)
ResponseLines ==
    [parses : {TRUE}, id : {1}, member : {"result"}, content : {"list"}]
    \cup [parses : {TRUE}, id : {3}, member : {"result"},
          content : {"list", "object", "null", "no_items", "plain_item"}]
    \cup [parses : {TRUE}, id : {3}, member : {"error", "neither"},
          content : {"none"}]
    \cup [parses : {FALSE}, id : {3}, member : {"result"}, content : {"list"}]

\* what the subprocess does: create_subprocess_exec raises or not, communicate
\* answers within 10 s or not, the exit code, and the lines of stdout
Subprocesses ==
    [spawn_fails : {TRUE}, timeout : {FALSE}, returncode : {0}, stdout : {<<>>}]
    \cup [spawn_fails : {FALSE}, timeout : BOOLEAN, returncode : {0, 1},
          stdout : SeqsUpTo(ResponseLines, MaxLines)]

\* no subprocess was started and nothing was written
NoMcpCall ==
    [success |-> TRUE, response |-> <<>>, spawned |-> FALSE,
     written |-> <<>>, killed |-> FALSE]

\* variant: the last response with id 3 decides
ToolResponse_Last(lines) ==
    LET Hit(l) == l.parses /\ l.id = 3
        hits == SelectSeq(lines, Hit)
    IN  IF hits = <<>> THEN <<>> ELSE <<hits[Len(hits)]>>

\* the loop over response_lines: the first line that parses and has id 3,
\* as a sequence of at most one line
ToolResponse(lines) ==
    LET Hit(l) == l.parses /\ l.id = 3
        hits == SelectSeq(lines, Hit)
    IN  IF hits = <<>> THEN <<>> ELSE <<hits[1]>>

\* MemoryClient._call_mcp_tool.  written: the ids of the requests handed to
\* the subprocess's stdin, in order
call_mcp_tool(enabled, proc) ==
    IF ~enabled THEN NoMcpCall
    ELSE IF proc.spawn_fails
    THEN [success |-> FALSE, response |-> <<>>, spawned |-> FALSE,
          written |-> <<>>, killed |-> FALSE]
    ELSE IF proc.timeout
    THEN [success |-> FALSE, response |-> <<>>, spawned |-> TRUE,
          written |-> <<1, 2, 3>>, killed |-> TRUE]
    ELSE IF proc.returncode # 0
    THEN [success |-> FALSE, response |-> <<>>, spawned |-> TRUE,
          written |-> <<1, 2, 3>>, killed |-> FALSE]
    ELSE LET tool_response == ToolResponse(proc.stdout)
         IN  IF tool_response # <<>> /\ tool_response[1].member = "result"
             THEN [success |-> TRUE, response |-> tool_response,
                   spawned |-> TRUE, written |-> <<1, 2, 3>>, killed |-> FALSE]
             ELSE [success |-> FALSE, response |-> <<>>, spawned |-> TRUE,
                   written |-> <<1, 2, 3>>, killed |-> FALSE]

\* MemoryClient.capture_research_memory
capture_research_memory(enabled, proc) ==
    IF ~enabled
    THEN [raised |-> FALSE, value |-> "True", mcp |-> NoMcpCall]
    ELSE [raised |-> FALSE,
          value |-> IF call_mcp_tool(enabled, proc).success THEN "True" ELSE "False",
          mcp |-> call_mcp_tool(enabled, proc)]

\* MemoryClient.retrieve_similar_research: the except clause names
\* JSONDecodeError, KeyError and IndexError
retrieve_similar_research(enabled, proc) ==
    LET mcp == call_mcp_tool(enabled, proc)
        content == IF mcp.response = <<>> THEN "none" ELSE mcp.response[1].content
    IN  IF ~enabled
        THEN [raised |-> FALSE, value |-> "list", mcp |-> NoMcpCall]
        ELSE IF ~mcp.success \/ mcp.response = <<>>
        THEN [raised |-> FALSE, value |-> "list", mcp |-> mcp]
        ELSE CASE content = "list" -> [raised |-> FALSE, value |-> "list", mcp |-> mcp]
               [] content = "object" -> [raised |-> FALSE, value |-> "dict", mcp |-> mcp]
               [] content = "no_items" -> [raised |-> FALSE, value |-> "list", mcp |-> mcp]
               [] content = "null" -> [raised |-> TRUE, value |-> "TypeError", mcp |-> mcp]
               [] OTHER -> [raised |-> TRUE, value |-> "AttributeError", mcp |-> mcp]

\* variant: without a client capture_memory_safe reports a failure
capture_memory_safe_NeedsClient(client, proc) ==
    IF client = "none"
    THEN [raised |-> FALSE, value |-> "False", mcp |-> NoMcpCall]
    ELSE capture_research_memory(client = "enabled", proc)

\* capture_memory_safe.  client: the global _memory_client is None, or a client
\* whose config is disabled or enabled
capture_memory_safe(client, proc) ==
    IF client = "none"
    THEN [raised |-> FALSE, value |-> "True", mcp |-> NoMcpCall]
    ELSE IF capture_research_memory(client = "enabled", proc).raised
    THEN [raised |-> FALSE, value |-> "True",
          mcp |-> capture_research_memory(client = "enabled", proc).mcp]
    ELSE capture_research_memory(client = "enabled", proc)

MemoryInputs ==
    [op : {"capture_memory_safe"}, client : {"none", "disabled", "enabled"},
     proc : Subprocesses, done : {FALSE}]
    \cup [op : {"retrieve_similar_research"}, client : {"disabled", "enabled"},
          proc : Subprocesses, done : {FALSE}]

\* a caller awaits capture_memory_safe or client.retrieve_similar_research
MemoryCall ==
    /\ fn.op \in {"capture_memory_safe", "retrieve_similar_research"}
    /\ ~fn.done
    /\ LET r == IF fn.op = "capture_memory_safe"
                THEN capture_memory_safe(fn.client, fn.proc)
                ELSE retrieve_similar_research(fn.client = "enabled", fn.proc)
       IN  fn' = [op |-> fn.op, client |-> fn.client, proc |-> fn.proc,
                  done |-> TRUE, raised |-> r.raised, value |-> r.value,
                  mcp |-> r.mcp]
    /\ UNCHANGED session_vars
    /\ UNCHANGED tool_vars

\* verify_research_claims as a function of the questions in the state
VerifyInputs ==
    [op : {"verify_research_claims"},
     direct : BOOLEAN,
     questions : {SubSeq(<<"q1", "q2", "q3", "q4", "q5">>, 1, n) : n \in 0..MaxQuestions},
     attempts : [1..3 -> VerifyAttempts],
     done : {FALSE}]

VerifyCall ==
    /\ fn.op = "verify_research_claims"
    /\ ~fn.done
    /\ fn' = [fn EXCEPT !.done = TRUE] @@
              [result |-> VerificationResults(fn.direct, fn.questions, fn.attempts)]
    /\ UNCHANGED session_vars
    /\ UNCHANGED tool_vars

(***************************************************************************)
(* intent_classifier.py.  Confidences are in hundredths: 90 is 0.90; the   *)
(* confidence of a response is a number, is missing or is no number.       *)
(* The Thai patterns of direct_indicators match no word of Topics.         *)
(***************************************************************************)

\* IntentClassifier.classify_intent, the rule-based classifier
IntentClassifier_classify_intent(text) ==
    LET has_url == UrlMatch(text) # "None"
        Article(i) ==
            /\ text[i] \in DirectVerbsArticle \cup {"elaborate"}
            /\ \/ (i + 1 <= Len(text) /\ text[i+1] \in DirectNouns)
               \/ (i + 2 <= Len(text) /\ text[i+1] = "this"
                       /\ text[i+2] \in DirectNouns)
        VerbUrl(i) ==
            /\ text[i] \in DirectVerbsUrl \cup
                   {"elaborate", "extract", "interpret", "evaluate", "study",
                    "investigate", "research", "explore", "examine", "describe",
                    "outline", "overview", "review", "read", "discuss"}
            /\ i + 1 <= Len(text) /\ text[i+1] \in {"URL", "WWW"}
        is_direct_request ==
            \/ \E i \in 1..Len(text) : Article(i)
            \/ DirectIndicator2(text)
            \/ DirectIndicator3(text)
            \/ \E i \in 1..Len(text) : VerbUrl(i)
    IN  IF has_url /\ is_direct_request
        THEN [intent |-> "url_fetch", confidence |-> 95,
              routing_strategy |-> "url_fetch", has_url |-> has_url,
              classification_method |-> "simplified_rule_based"]
        ELSE [intent |-> "web_search", confidence |-> 90,
              routing_strategy |-> "web_search", has_url |-> has_url,
              classification_method |-> "simplified_rule_based"]

\* variant: a transport error leaves _classify_with_ml as an exception
classify_with_ml_Propagates(resp) ==
    IF resp.transport = "error" THEN [raised |-> TRUE, result |-> <<>>]
    ELSE IF resp.status # 200 \/ resp.body # "object"
              \/ resp.confidence_is = "text"
    THEN [raised |-> FALSE, result |-> <<>>]
    ELSE [raised |-> FALSE,
          result |-> << [intent |-> IF resp.class_id = 1 THEN "ArXiv Research"
                                    ELSE IF resp.class_id = 2 THEN "Hybrid Research"
                                    ELSE "Web Research",
                         confidence |-> IF resp.confidence_is = "missing" THEN 80
                                        ELSE resp.confidence,
                         routing_strategy |-> IF resp.class_id = 1 THEN "mcp"
                                              ELSE "web_search",
                         has_url |-> FALSE,
                         classification_method |-> "xlm_roberta_api"] >>]

\* MLIntentClassifier._classify_with_ml: the result dict, or None (<<>>) after
\* a transport error, a status other than 200, a body response.json() rejects
\* or that is no object, or a confidence that cannot be compared with 0.8
classify_with_ml(resp) ==
    IF resp.transport = "error" \/ resp.status # 200 \/ resp.body # "object"
          \/ resp.confidence_is = "text"
    THEN [raised |-> FALSE, result |-> <<>>]
    ELSE [raised |-> FALSE,
          result |-> << [intent |-> IF resp.class_id = 1 THEN "ArXiv Research"
                                    ELSE IF resp.class_id = 2 THEN "Hybrid Research"
                                    ELSE "Web Research",
                         confidence |-> IF resp.confidence_is = "missing" THEN 80
                                        ELSE resp.confidence,
                         routing_strategy |-> IF resp.class_id = 1 THEN "mcp"
                                              ELSE "web_search",
                         has_url |-> FALSE,
                         classification_method |-> "xlm_roberta_api"] >>]

\* MLIntentClassifier.classify_intent
MLIntentClassifier_classify_intent(text, resp) ==
    LET rule_result == IntentClassifier_classify_intent(text)
        ml == classify_with_ml(resp)
    IN  IF rule_result.has_url \/ rule_result.confidence > 90
        THEN [raised |-> FALSE, result |-> rule_result, ml_called |-> FALSE]
        ELSE IF ml.raised
        THEN [raised |-> TRUE, result |-> rule_result, ml_called |-> TRUE]
        ELSE IF ml.result # <<>> /\ ml.result[1].confidence > 70
        THEN [raised |-> FALSE, result |-> ml.result[1], ml_called |-> TRUE]
        ELSE [raised |-> FALSE, result |-> rule_result, ml_called |-> TRUE]

\* the texts to classify and what the service at /classify does
IntentInputs ==
    [op : {"classify_intent"}, text : Topics, done : {FALSE},
     resp : [transport : {"error"}, status : {0}, body : {"none"},
             class_id : {0}, confidence_is : {"missing"}, confidence : {0}]
            \cup [transport : {"ok"}, status : {500}, body : {"object"},
                  class_id : {1}, confidence_is : {"number"}, confidence : {90}]
            \cup [transport : {"ok"}, status : {200},
                  body : {"malformed", "list"},
                  class_id : {0}, confidence_is : {"missing"}, confidence : {0}]
            \cup [transport : {"ok"}, status : {200}, body : {"object"},
                  class_id : 1..4,
                  confidence_is : {"missing", "text"}, confidence : {0}]
            \cup [transport : {"ok"}, status : {200}, body : {"object"},
                  class_id : 1..4,
                  confidence_is : {"number"}, confidence : {50, 70, 71, 90}]]

IntentCall ==
    /\ fn.op = "classify_intent"
    /\ ~fn.done
    /\ LET r == MLIntentClassifier_classify_intent(fn.text, fn.resp)
       IN  fn' = [op |-> fn.op, text |-> fn.text, resp |-> fn.resp,
                  done |-> TRUE, raised |-> r.raised, result |-> r.result,
                  ml_called |-> r.ml_called]
    /\ UNCHANGED session_vars
    /\ UNCHANGED tool_vars

\* ---------------------------------------------------------------------
\* Two sessions inside _tool_enhanced_research_async at the same time.
\* tool_manager and openwebui_integration are module globals, so both
\* sessions act on the same openwebui_initialized, tool_servers,
\* tool_functions and sessions; a session gives way to the other wherever
\* it awaits the tool server.
\* ---------------------------------------------------------------------

\* the function keys _create_tool_functions makes for the server at idx
ServerToolsAt(idx) ==
    IF idx = 0
    THEN ServerTools
    ELSE {"server:1_tool_search_papers_post", "server:1_post__papers"}

\* the process is new, or an earlier session has initialized the integration
InitParallel ==
    /\ research_topic = <<"what", "is", "quantum">>
    /\ config = [max_web_research_loops |-> MaxConfigured,
                 search_api |-> "searxng",
                 strip_thinking_tokens |-> TRUE]
    /\ input_analysis = EmptyAnalysis
    /\ search_strategy = "web_search"
    /\ search_query = None
    /\ web_research_results = <<>>
    /\ sources_gathered = <<>>
    /\ research_loop_count = 0
    /\ running_summary = None
    /\ verification_questions = <<>>
    /\ verification_results = <<>>
    /\ tool_results = <<>>
    /\ enhanced_context = <<>>
    /\ pc = "tool_enhanced_research"
    /\ trace = <<>>
    /\ last_search = NoSearch
    /\ last_reflection = "none"
    /\ fn = NoCall
    /\ tools \in {DefaultTools, DefaultTools \cup CustomTools}
    /\ last_execution = NoExecution
    /\ researchers = [s \in {1, 2} |-> [at |-> "start", saw |-> {},
                                        registered |-> FALSE]]
    /\ \E earlier \in BOOLEAN :
         /\ openwebui_initialized = earlier
         /\ tool_functions = IF earlier THEN ServerTools ELSE {}
         /\ tool_servers = IF earlier THEN 1 ELSE 0
         /\ sessions = IF earlier THEN 1 ELSE 0
         /\ open_sessions = IF earlier THEN {1} ELSE {}
         /\ session_count = IF earlier THEN 1 ELSE 0

\* session s reads is_openwebui_initialized() and, when it is false, calls
\* initialize_openwebui_tools, which awaits the server's OpenAPI document
is_openwebui_initialized(s) ==
    /\ researchers[s].at = "start"
    /\ researchers' = [researchers EXCEPT ![s].at =
                          IF openwebui_initialized THEN "listing"
                          ELSE "registering"]
    /\ UNCHANGED <<tools, openwebui_initialized, tool_functions, sessions,
                   open_sessions, session_count, last_execution,
                   tool_servers, fn>>
    /\ UNCHANGED session_vars

\* the server's answer reaches session s: _get_tool_server_data keeps the new
\* session under the server's name or closes it, register_tool_server adds
\* the server at index len(tool_servers) and its functions, and
\* initialize_openwebui_integration sets openwebui_initialized
register_tool_server(s) ==
    /\ researchers[s].at = "registering"
    /\ \E answered \in BOOLEAN :
         /\ session_count' = session_count + 1
         /\ researchers' = [researchers EXCEPT ![s].at = "listing",
                                               ![s].registered = answered]
         /\ IF answered
            THEN /\ sessions' = session_count + 1
                 /\ open_sessions' = open_sessions \cup {session_count + 1}
                 /\ tool_functions' =
                        tool_functions \cup ServerToolsAt(tool_servers)
                 /\ tool_servers' = tool_servers + 1
                 /\ openwebui_initialized' = TRUE
            ELSE UNCHANGED <<sessions, open_sessions, tool_functions,
                             tool_servers, openwebui_initialized>>
    /\ UNCHANGED <<tools, last_execution, fn>>
    /\ UNCHANGED session_vars

\* session s takes its available_tools from get_tools_for_llm(): the local
\* tools, and the integration's tool specs when it is initialized
get_tools_for_llm(s) ==
    /\ researchers[s].at = "listing"
    /\ researchers' = [researchers EXCEPT
                          ![s].at = "done",
                          ![s].saw = tools \cup
                                     (IF openwebui_initialized
                                      THEN tool_functions ELSE {})]
    /\ UNCHANGED <<tools, openwebui_initialized, tool_functions, sessions,
                   open_sessions, session_count, last_execution,
                   tool_servers, fn>>
    /\ UNCHANGED session_vars

NextParallel ==
    \E s \in {1, 2} :
        \/ is_openwebui_initialized(s)
        \/ register_tool_server(s)
        \/ get_tools_for_llm(s)

SpecParallel == InitParallel /\ [][NextParallel]_vars

\* ---------------------------------------------------------------------
\* The loop of strip_thinking_tokens, one round at a time
\* ---------------------------------------------------------------------

\* the body of the while loop: text[:start] + text[end:] with start at the
\* first "<think>" and end behind the first "</think>"
strip_thinking_round(text) ==
    LET start == Find(text, "<think>")
        end == Find(text, "</think>") + 1
    IN  Slice(text, 0, start) \o Slice(text, end, Len(text))

\* every text of up to MaxRawLen tokens, with the tags in any order
StripInputs ==
    {[op |-> "strip_thinking_tokens", input |-> t, text |-> t, rounds |-> 0,
      done |-> FALSE] : t \in SeqsUpTo({"w", "<think>", "</think>"}, MaxRawLen)}

\* the loop tests its condition and either runs its body once or returns text
StripCall ==
    /\ fn.op = "strip_thinking_tokens"
    /\ ~fn.done
    /\ IF Find(fn.text, "<think>") >= 0 /\ Find(fn.text, "</think>") >= 0
       THEN /\ fn.rounds < MaxRounds
            /\ fn' = [fn EXCEPT !.text = strip_thinking_round(fn.text),
                                !.rounds = fn.rounds + 1]
       ELSE fn' = [fn EXCEPT !.done = TRUE]
    /\ UNCHANGED session_vars
    /\ UNCHANGED tool_vars

\* ---------------------------------------------------------------------
\* _convert_openapi_to_tool_payload as a function of the OpenAPI document.
\* A document is the list of the entries of one path item ("/papers") and
\* the schema "Form" of components/schemas.  Property tables are the sets of
\* their keys, required lists are sequences.
\* ---------------------------------------------------------------------

\* method.lower()
Lower(key) == IF key = "PUT" THEN "put" ELSE key

\* variant: only schemas that carry their properties themselves are read
RequestBodyParameters_DirectOnly(entry, doc) ==
    IF Lower(entry.key) \in {"post", "put", "patch"}
       /\ entry.body \in {"direct", "direct_and_ref"}
    THEN [properties |-> {"d"}, required |-> <<"d">>]
    ELSE [properties |-> {}, required |-> <<>>]

\* what the application/json request body adds to the parameters (lines
\* 232-257): for POST, PUT and PATCH, the schema's own properties when it
\* has the key "properties"; else, for a "$ref" that starts with
\* "#/components/schemas/" and names a schema of the table which has the key
\* "properties", that schema's properties and required list; else nothing
RequestBodyParameters(entry, doc) ==
    IF Lower(entry.key) \notin {"post", "put", "patch"}
    THEN [properties |-> {}, required |-> <<>>]
    ELSE CASE entry.body \in {"direct", "direct_and_ref"} ->
                 [properties |-> {"d"}, required |-> <<"d">>]
           [] entry.body = "ref" /\ doc.Form.has_properties ->
                 [properties |-> doc.Form.properties,
                  required |-> doc.Form.required]
           [] OTHER -> [properties |-> {}, required |-> <<>>]

\* the tools made from the entries of the path item, in their order; an
\* entry under a key outside get, post, put, delete, patch is passed over
RECURSIVE convert_openapi_to_tool_payload(_, _)
convert_openapi_to_tool_payload(entries, doc) ==
    IF entries = <<>> THEN <<>>
    ELSE LET entry == entries[1]
             rest == convert_openapi_to_tool_payload(Tail(entries), doc)
             body == RequestBodyParameters(entry, doc)
             IsRequired(par) == par.required
             NamesOf(pars) == [i \in 1..Len(pars) |-> pars[i].name]
         IN  IF Lower(entry.key) \notin {"get", "post", "put", "delete", "patch"}
             THEN rest
             ELSE << [name |-> IF entry.operation_id # "none"
                               THEN <<entry.operation_id>>
                               ELSE <<entry.key, "_", "_papers">>,
                      properties |->
                          {entry.parameters[i].name :
                               i \in 1..Len(entry.parameters)}
                          \cup body.properties,
                      required |->
                          NamesOf(SelectSeq(entry.parameters, IsRequired))
                          \o body.required] >> \o rest

\* documents: one operation, or an entry that is no operation followed by a
\* POST operation; the schema Form with and without the key "properties"
OpenApiDocs ==
    LET Operations ==
            [key : {"get", "post", "PUT", "patch"},
             operation_id : {"none", "tool_search_papers_post"},
             parameters : {<<>>, <<[name |-> "p", required |-> TRUE]>>,
                           <<[name |-> "p", required |-> FALSE]>>},
             body : {"none", "direct", "direct_and_ref", "ref", "ref_unknown"}]
        Others ==
            [key : {"parameters", "summary"}, operation_id : {"none"},
             parameters : {<<>>}, body : {"none"}]
        Posts == {o \in Operations : o.key = "post" /\ o.parameters = <<>>}
    IN  [op : {"convert_openapi"}, done : {FALSE}, tools : {<<>>},
         entries : {<<e>> : e \in Operations \cup Others}
                   \cup {<<o, e>> : o \in Others, e \in Posts},
         Form : [has_properties : {TRUE}, properties : {{"query", "limit"}},
                 required : {<<>>, <<"query">>}]
                \cup [has_properties : {FALSE}, properties : {{}},
                      required : {<<>>, <<"query">>}]]

ConvertCall ==
    /\ fn.op = "convert_openapi"
    /\ ~fn.done
    /\ fn' = [fn EXCEPT !.done = TRUE,
                        !.tools = convert_openapi_to_tool_payload(fn.entries, fn)]
    /\ UNCHANGED session_vars
    /\ UNCHANGED tool_vars

\* ---------------------------------------------------------------------
\* MCPClient: tool discovery during connect, and call_tool with its retries
\* ---------------------------------------------------------------------

\* _parse_tools_spec: the entries of the "tools" table are added to
\* self.tools one by one; an entry whose value is no object raises
RECURSIVE parse_tools_spec(_, _)
parse_tools_spec(client_tools, entries) ==
    IF entries = <<>> THEN [raised |-> FALSE, tools |-> client_tools]
    ELSE IF ~entries[1].is_object
    THEN [raised |-> TRUE, tools |-> client_tools]
    ELSE parse_tools_spec(client_tools \cup {entries[1].name}, Tail(entries))

\* variant: the default tools are added to what was parsed before the error
discover_tools_KeepsParsed(resp) ==
    LET defaults == {"search_papers", "download_paper", "list_papers",
                     "read_paper"}
        parsed == parse_tools_spec({}, resp.entries)
    IN  IF resp.transport = "error" \/ resp.status # 200
           \/ resp.shape \in {"not_json", "array", "tools_array"}
        THEN defaults
        ELSE IF resp.shape = "no_tools" THEN {}
        ELSE IF parsed.raised THEN parsed.tools \cup defaults
        ELSE parsed.tools

\* _discover_tools, as the tool names of the client afterwards.  The GET of
\* /tools raises, or answers with another status than 200, or with a body
\* that is no JSON, a JSON array, an object whose "tools" is an array, an
\* object without "tools", or an object with a "tools" table.
\* _load_default_arxiv_tools assigns self.tools anew.
discover_tools(resp) ==
    LET defaults == {"search_papers", "download_paper", "list_papers",
                     "read_paper"}
        parsed == parse_tools_spec({}, resp.entries)
    IN  IF resp.transport = "error" \/ resp.status # 200
           \/ resp.shape \in {"not_json", "array", "tools_array"}
        THEN defaults
        ELSE IF resp.shape = "no_tools" THEN {}
        ELSE IF parsed.raised THEN defaults
        ELSE parsed.tools

\* a new client and what the server does with GET /tools
McpDiscoveries ==
    LET Entries == [name : {"search_papers", "find_code"},
                    is_object : BOOLEAN]
        Answer(transport, status, shape, entries) ==
            [transport |-> transport, status |-> status, shape |-> shape,
             entries |-> entries]
    IN  {[op |-> "mcp_connect", done |-> FALSE, resp |-> r, tools |-> {},
          connected |-> FALSE, raised |-> FALSE] :
            r \in {Answer("error", 0, "none", <<>>),
                   Answer("ok", 404, "not_json", <<>>),
                   Answer("ok", 500, "table", <<>>)}
                  \cup {Answer("ok", 200, shape, <<>>) :
                           shape \in {"not_json", "array", "tools_array",
                                      "no_tools"}}
                  \cup {Answer("ok", 200, "table", e) :
                           e \in SeqsUpTo(Entries, 2)}}

\* MCPClient.connect: the session is made, _discover_tools catches its own
\* errors, connected becomes True
McpConnectCall ==
    /\ fn.op = "mcp_connect"
    /\ ~fn.done
    /\ fn' = [fn EXCEPT !.done = TRUE, !.connected = TRUE, !.raised = FALSE,
                        !.tools = discover_tools(fn.resp)]
    /\ UNCHANGED session_vars
    /\ UNCHANGED tool_vars

\* variant: every answer with status 200 ends the attempts
AttemptFails_StatusOnly(outcome) == outcome \notin {"ok", "ok_not_json"}

\* an attempt of call_tool fails unless the POST is answered with status 200
\* and response.json() reads the body: another status is logged (and raised
\* on the last attempt), asyncio.TimeoutError and every other exception, the
\* one of response.json() included, are caught by the handlers at 250-258
AttemptFails(outcome) == outcome # "ok"

\* the loop of call_tool from attempt (0-based) on: the events of the call
\* ("post", "sleep"), whether it raised, and the attempt (1-based) whose
\* body it returned, 0 for none
RECURSIVE call_tool_attempts(_, _, _)
call_tool_attempts(attempt, max_retries, outcomes) ==
    IF attempt >= max_retries
    THEN [raised |-> FALSE, returned |-> 0, log |-> <<>>]
    ELSE IF ~AttemptFails(outcomes[attempt + 1])
    THEN [raised |-> FALSE, returned |-> attempt + 1, log |-> <<"post">>]
    ELSE IF attempt = max_retries - 1
    THEN [raised |-> TRUE, returned |-> 0, log |-> <<"post">>]
    ELSE LET later == call_tool_attempts(attempt + 1, max_retries, outcomes)
         IN  [later EXCEPT !.log = <<"post", "sleep">> \o later.log]

\* MCPClient.call_tool
MCPClient_call_tool(connected, known, max_retries, outcomes) ==
    IF ~connected \/ ~known
    THEN [raised |-> TRUE, returned |-> 0, log |-> <<>>]
    ELSE call_tool_attempts(0, max_retries, outcomes)

\* calls of a connected client for a tool it has, with every course of up to
\* MaxRetries answers, and calls that are not connected or name no tool
McpCalls ==
    LET Outcomes == {"ok", "ok_not_json", "status_error", "timeout", "error"}
    IN  {[op |-> "mcp_call_tool", done |-> FALSE, connected |-> c[1],
          known |-> c[2], max_retries |-> Len(o), outcomes |-> o,
          raised |-> FALSE, returned |-> 0, log |-> <<>>] :
            c \in {<<TRUE, TRUE>>}, o \in SeqsUpTo(Outcomes, MaxRetries)}
        \cup
        {[op |-> "mcp_call_tool", done |-> FALSE, connected |-> c[1],
          known |-> c[2], max_retries |-> Len(o), outcomes |-> o,
          raised |-> FALSE, returned |-> 0, log |-> <<>>] :
            c \in {<<FALSE, TRUE>>, <<TRUE, FALSE>>},
            o \in {<<"ok">>, <<"error", "ok">>}}

McpCallToolCall ==
    /\ fn.op = "mcp_call_tool"
    /\ ~fn.done
    /\ LET r == MCPClient_call_tool(fn.connected, fn.known, fn.max_retries,
                                    fn.outcomes)
       IN  fn' = [fn EXCEPT !.done = TRUE, !.raised = r.raised,
                            !.returned = r.returned, !.log = r.log]
    /\ UNCHANGED session_vars
    /\ UNCHANGED tool_vars

\* ---------------------------------------------------------------------
\* tool_enhanced_research with the LLM's answer and the tool executions
\* spelled out, inside a session of the graph
\* ---------------------------------------------------------------------

\* the names executed one after the other, with the ToolExecution.success of
\* each, and the entries appended to tool_results
RECURSIVE ExecuteInOrder(_, _)
ExecuteInOrder(names, success) ==
    IF names = <<>> THEN <<>>
    ELSE (IF success[1]
          THEN << IF names[1] = "web_search" THEN WebSearchToolResult
                  ELSE ArxivToolResult >>
          ELSE <<>>)
         \o ExecuteInOrder(Tail(names), Tail(success))

\* variant: the fallback also runs behind tool calls that were executed
ToolCallsMade_OnlyWhenEmpty(llm) ==
    /\ llm.kind = "list"
    /\ llm.calls = <<>>

\* tool_calls_made after the parsing: a JSON object with a "tool_calls" list
\* was found and the names of its entries could be printed (every entry is
\* an object)
ToolCallsMade(llm) ==
    /\ llm.kind = "list"
    /\ \A i \in 1..Len(llm.calls) : llm.calls[i] # "not_object"

\* _tool_enhanced_research_async behind the LLM call: what it executes, in
\* order, and what it returns.  An exception of llm.invoke ends in the outer
\* except branch; an empty list returns at once; entries without a name are
\* passed over; without tool calls the fallback executes web_search and
\* arxiv_search.
tool_enhanced_research_async(llm, success) ==
    LET HasName(call) == call # ""
        chosen == SelectSeq(llm.calls, HasName)
        Tagged(results, tag) ==
            [i \in 1..Len(results) |-> <<tag, results[i].tool_name>>]
    IN  IF llm.kind = "raises"
        THEN [executed |-> <<>>, tool_results |-> <<>>,
              enhanced_context |-> <<>>, raised |-> FALSE]
        ELSE IF ToolCallsMade(llm)
        THEN IF llm.calls = <<>>
             THEN [executed |-> <<>>, tool_results |-> <<>>,
                   enhanced_context |-> <<"LLM Analysis">>, raised |-> FALSE]
             ELSE LET results == ExecuteInOrder(chosen, success)
                  IN  [executed |-> chosen, tool_results |-> results,
                       enhanced_context |-> Flatten(Tagged(results, "Tool")),
                       raised |-> FALSE]
        ELSE LET results ==
                     ExecuteInOrder(<<"web_search", "arxiv_search">>, success)
             IN  [executed |-> <<"web_search", "arxiv_search">>,
                  tool_results |-> results,
                  enhanced_context |->
                      Flatten(Tagged(results, "Fallback Tool"))
                          \o <<"LLM Analysis">>,
                  raised |-> FALSE]

\* what the LLM answers (an exception, text without JSON, a JSON object
\* without "tool_calls", one whose "tool_calls" is no list, or a list of up
\* to MaxToolCalls entries: a call by name, an object without name, or
\* something that is no object) and whether each execution succeeds
ToolResearchInputs ==
    [llm : [kind : {"raises", "text", "no_tool_calls", "not_a_list"},
            calls : {<<>>}]
           \cup [kind : {"list"},
                 calls : SeqsUpTo({"web_search", "arxiv_search", "",
                                   "not_object"}, MaxToolCalls)],
     success : [1..MaxToolCalls -> BOOLEAN]]

\* the node tool_enhanced_research; fn keeps the run's input and what it
\* executed
tool_enhanced_research_calls ==
    /\ pc = "tool_enhanced_research"
    /\ Len(trace) < MaxSteps
    /\ trace' = Append(trace, "tool_enhanced_research")
    /\ \E input \in ToolResearchInputs :
         LET run == tool_enhanced_research_async(input.llm, input.success)
         IN  /\ tool_results' = tool_results \o run.tool_results
             /\ enhanced_context' = run.enhanced_context
             /\ fn' = [op |-> "tool_enhanced_research", llm |-> input.llm,
                       success |-> input.success, executed |-> run.executed,
                       recorded |-> run.tool_results, raised |-> run.raised]
    /\ pc' = "generate_query"
    /\ UNCHANGED <<research_topic, input_analysis, search_strategy, search_query,
                   web_research_results, sources_gathered, research_loop_count,
                   running_summary, verification_questions, verification_results,
                   config, last_search, last_reflection>>
    /\ UNCHANGED tool_vars

\* sessions for a plain question and for a direct request with a URL
InitToolSession ==
    /\ Init
    /\ research_topic \in {<<"what", "is", "quantum">>, <<"summarize", "URL">>}
    /\ config = [max_web_research_loops |-> 1, search_api |-> "searxng",
                 strip_thinking_tokens |-> TRUE]

NextToolSession ==
    \/ classify_intent
    \/ fetch_url_content
    \/ tool_enhanced_research_calls
    \/ generate_query
    \/ web_research
    \/ summarize_sources
    \/ generate_verification_questions
    \/ verify_research_claims
    \/ synthesize_with_verification
    \/ reflect_on_summary
    \/ finalize_summary

SpecToolSession == InitToolSession /\ [][NextToolSession]_vars

\* ---------------------------------------------------------------------
\* Two _execute_tool_server calls for the same tool server, step by step.
\* Each call closes the session stored under the server's name, stores a
\* new one and starts its request, and later reads the answer.  researchers
\* keeps, for each call, its place, its own session and its outcome.
\* ---------------------------------------------------------------------

\* the server is registered; its entry of self.sessions holds the session of
\* the registration, or none
InitServerCalls ==
    /\ research_topic = <<"what", "is", "quantum">>
    /\ config = [max_web_research_loops |-> MaxConfigured,
                 search_api |-> "searxng",
                 strip_thinking_tokens |-> TRUE]
    /\ input_analysis = EmptyAnalysis
    /\ search_strategy = "web_search"
    /\ search_query = None
    /\ web_research_results = <<>>
    /\ sources_gathered = <<>>
    /\ research_loop_count = 0
    /\ running_summary = None
    /\ verification_questions = <<>>
    /\ verification_results = <<>>
    /\ tool_results = <<>>
    /\ enhanced_context = <<>>
    /\ pc = "tool_enhanced_research"
    /\ trace = <<>>
    /\ last_search = NoSearch
    /\ last_reflection = "none"
    /\ fn = NoCall
    /\ tools = DefaultTools
    /\ last_execution = NoExecution
    /\ openwebui_initialized = TRUE
    /\ tool_functions = ServerTools
    /\ tool_servers = 1
    /\ session_count = 1
    /\ \E kept \in BOOLEAN :
         /\ sessions = IF kept THEN 1 ELSE 0
         /\ open_sessions = IF kept THEN {1} ELSE {}
    /\ researchers = [s \in {1, 2} |->
                         [at |-> "start", session |-> 0, http |-> "none",
                          disturbed |-> FALSE, result |-> "none"]]

\* lines 353-362: the call takes the session stored under the server's
\* name and, when it is open, closes it (an await)
close_old_session(s) ==
    /\ researchers[s].at = "start"
    /\ open_sessions' = open_sessions \ {sessions}
    /\ researchers' = [researchers EXCEPT ![s].at = "creating"]
    /\ UNCHANGED <<tools, openwebui_initialized, tool_functions, sessions,
                   session_count, last_execution, tool_servers, fn>>
    /\ UNCHANGED session_vars

\* lines 364-377 and the start of the request at 394: a new session takes
\* the place under the server's name and the call sends its request with it
store_new_session(s) ==
    /\ researchers[s].at = "creating"
    /\ session_count' = session_count + 1
    /\ sessions' = session_count + 1
    /\ open_sessions' = open_sessions \cup {session_count + 1}
    /\ researchers' = [researchers EXCEPT ![s].at = "requesting",
                                          ![s].session = session_count + 1]
    /\ UNCHANGED <<tools, openwebui_initialized, tool_functions,
                   last_execution, tool_servers, fn>>
    /\ UNCHANGED session_vars

\* lines 394-459: the call reads the answer.  With its session closed under
\* it, or a status from 400 on, or a lost connection, it raises, and the
\* outer except branch closes the session stored under the server's name
\* and deletes the entry; with a good answer it closes its own session and
\* deletes the entry
read_response(s) ==
    /\ researchers[s].at = "requesting"
    /\ \E http \in {"ok", "status_error", "connection_error"} :
         LET mine == researchers[s].session
             closed == mine \notin open_sessions
             w == [sessions |-> sessions, open |-> open_sessions,
                   count |-> session_count]
             after == IF closed \/ http # "ok"
                      THEN Cleanup(w)
                      ELSE [w EXCEPT !.open = w.open \ {mine}, !.sessions = 0]
         IN  /\ sessions' = after.sessions
             /\ open_sessions' = after.open
             /\ researchers' =
                    [researchers EXCEPT
                        ![s].at = "done",
                        ![s].http = http,
                        ![s].disturbed = closed,
                        ![s].result = IF closed \/ http # "ok"
                                      THEN "raised" ELSE "returned"]
    /\ UNCHANGED <<tools, openwebui_initialized, tool_functions, session_count,
                   last_execution, tool_servers, fn>>
    /\ UNCHANGED session_vars

NextServerCalls ==
    \E s \in {1, 2} :
        \/ close_old_session(s)
        \/ store_new_session(s)
        \/ read_response(s)

SpecServerCalls == InitServerCalls /\ [][NextServerCalls]_vars

InitCalls ==
    /\ FreshState
    /\ fn \in PipeInputs \cup MemoryInputs \cup VerifyInputs \cup IntentInputs
             \cup StripInputs \cup OpenApiDocs \cup McpDiscoveries
             \cup McpCalls

\* the caller calls pipe
pipe ==
    /\ fn.op = "pipe"
    /\ fn.stage = "idle"
    /\ LET r == pipe_return(fn)
       IN  fn' = [fn EXCEPT !.stage = r.stage,
                            !.output = r.text,
                            !.raised = r.raised]
    /\ UNCHANGED session_vars
    /\ UNCHANGED tool_vars

\* the caller takes the next text from the generator
GeneratorNext ==
    /\ fn.op = "pipe"
    /\ fn.stage \in {"new", "running", "last"}
    /\ LET r == stream_research_next(fn)
       IN  fn' = [fn EXCEPT !.stage = r.stage,
                            !.pos = r.pos,
                            !.output = fn.output \o r.text,
                            !.raised = r.raised]
    /\ UNCHANGED session_vars
    /\ UNCHANGED tool_vars

NextCalls ==
    \/ pipe
    \/ GeneratorNext
    \/ MemoryCall
    \/ VerifyCall
    \/ IntentCall
    \/ StripCall
    \/ ConvertCall
    \/ McpConnectCall
    \/ McpCallToolCall

SpecCalls == InitCalls /\ [][NextCalls]_vars

ErrorLabels ==
    {"Error during research:", "Error during batch research:",
     "Error in Local Deep Researcher:", "Local Deep Researcher is not available"}

\* C22: Pipeline.pipe, with _batch_research and _stream_research, lets no
\* exception reach its caller; once the call is over the caller holds a text
\* that is the report or starts with an error label.
C22_PipeAlwaysReturnsText ==
    /\ fn.op = "pipe" => ~fn.raised
    /\ (fn.op = "pipe" /\ fn.stage = "closed") =>
          /\ fn.output # <<>>
          /\ fn.output[1] \in ErrorLabels \cup {"# Deep Research Results"}
          /\ (fn.is_available /\ fn.request_ok /\ fn.run.fails_at # 0) =>
                 fn.output[1] \in ErrorLabels

\* a streamed session whose graph raised after some steps and whose event
\* emitter raises on every call, ended with the error text
C22_Witness ==
    /\ fn.op = "pipe"
    /\ fn.stage = "closed"
    /\ fn.stream /\ fn.is_available /\ fn.request_ok
    /\ fn.emitter = "raises" /\ ~fn.loop_running
    /\ fn.run.fails_at > 2
    /\ fn.output = <<"Error during research:", "message">>

\* C23: with a memory client whose config has enabled = false, or with no
\* memory client, capture_memory_safe returns True, starts no MCP subprocess
\* and writes no MCP request.
C23_DisabledMemoryIsSilent ==
    (fn.op = "capture_memory_safe" /\ fn.done
        /\ fn.client \in {"none", "disabled"}) =>
        /\ ~fn.raised
        /\ fn.value = "True"
        /\ ~fn.mcp.spawned
        /\ fn.mcp.written = <<>>

\* a disabled client was asked to capture while a working server was there
C23_Witness ==
    /\ fn.op = "capture_memory_safe" /\ fn.done
    /\ fn.client = "disabled"
    /\ ~fn.proc.spawn_fails /\ ~fn.proc.timeout /\ fn.proc.returncode = 0
    /\ fn.proc.stdout # <<>> /\ fn.proc.stdout[1].member = "result"
    /\ fn.value = "True"

\* C24: capture_memory_safe and retrieve_similar_research never raise,
\* whatever the MCP subprocess does; capture returns a bool and retrieve a
\* list.
C24_MemoryCallsNeverRaise ==
    (fn.op \in {"capture_memory_safe", "retrieve_similar_research"} /\ fn.done) =>
        /\ ~fn.raised
        /\ fn.op = "capture_memory_safe" => fn.value \in {"True", "False"}
        /\ fn.op = "retrieve_similar_research" => fn.value = "list"

\* the first stdout line that parses, has id 3 and carries a result
FirstToolLineHasResult ==
    \E i \in 1..Len(fn.proc.stdout) :
        /\ fn.proc.stdout[i].parses
        /\ fn.proc.stdout[i].id = 3
        /\ fn.proc.stdout[i].member = "result"
        /\ \A j \in 1..(i - 1) :
               ~(fn.proc.stdout[j].parses /\ fn.proc.stdout[j].id = 3)

McpCalled ==
    /\ fn.op \in {"capture_memory_safe", "retrieve_similar_research"}
    /\ fn.done
    /\ fn.client = "enabled"

\* C25 as stated: _call_mcp_tool writes the requests with ids 1, 2, 3 in this
\* order and succeeds exactly when the first response line with id 3 has a
\* result.
C25_OutcomeFromFirstToolLine ==
    McpCalled =>
        /\ fn.mcp.written = <<1, 2, 3>>
        /\ fn.mcp.success <=> FirstToolLineHasResult

\* C25, amended: once the subprocess is started the three requests are written
\* in the order 1, 2, 3; when it ends in time with exit code 0 the call
\* succeeds exactly when the first response line with id 3 has a result; a
\* spawn failure, a timeout or another exit code makes the call fail.
C25_OutcomeFromFirstToolLineOfCleanRun ==
    McpCalled =>
        /\ ~fn.proc.spawn_fails => fn.mcp.written = <<1, 2, 3>>
        /\ (~fn.proc.spawn_fails /\ ~fn.proc.timeout /\ fn.proc.returncode = 0) =>
               (fn.mcp.success <=> FirstToolLineHasResult)
        /\ (fn.proc.spawn_fails \/ fn.proc.timeout \/ fn.proc.returncode # 0) =>
               ~fn.mcp.success

\* a clean run printed an error with id 3 and then a result with id 3
C25_Witness ==
    /\ McpCalled
    /\ ~fn.proc.spawn_fails /\ ~fn.proc.timeout /\ fn.proc.returncode = 0
    /\ Len(fn.proc.stdout) = 2
    /\ fn.proc.stdout[1].parses /\ fn.proc.stdout[1].member = "error"
    /\ fn.proc.stdout[2].parses /\ fn.proc.stdout[2].id = 3
    /\ fn.proc.stdout[2].member = "result"
    /\ ~fn.mcp.success

\* the try block of verify_research_claims for question i came to its end
VerifiedAt(i) ==
    ~(fn.attempts[i].format_raises /\ ~fn.attempts[i].outcome.raises
          /\ fn.attempts[i].outcome.results # <<>>)

\* positions among the first 3 questions whose search did not raise
VerifiedPositions ==
    {i \in 1..Min(3, Len(fn.questions)) : VerifiedAt(i)}

\* C26: verify_research_claims searches for the first 3 verification
\* questions at most, and a search that raises does not stop the searches after
\* it: verification_results has one entry per question among the first 3 whose
\* search did not raise, in the order of the questions.
C26_VerifiesFirstThreeQuestions ==
    (fn.op = "verify_research_claims" /\ fn.done /\ ~fn.direct) =>
        /\ Len(fn.result) = Cardinality(VerifiedPositions)
        /\ Len(fn.result) <= 3
        /\ \A k \in 1..Len(fn.result) :
              \E i \in VerifiedPositions :
                  /\ Cardinality({j \in VerifiedPositions : j <= i}) = k
                  /\ fn.result[k].question = fn.questions[i]

\* more than 3 questions, the search for the second one raised, the first and
\* the third have their entries
C26_Witness ==
    /\ fn.op = "verify_research_claims" /\ fn.done /\ ~fn.direct
    /\ Len(fn.questions) > 3
    /\ ~VerifiedAt(2)
    /\ Len(fn.result) = 2
    /\ fn.result[1].question = "q1"
    /\ fn.result[2].question = "q3"

\* C27: synthesize_with_verification always finds verification_results empty,
\* because generate_verification_questions returns no question, and then
\* returns the running_summary it was given: the summary after the node equals
\* the summary before it, in every session.
C27_SynthesisPassesSummaryThrough ==
    [][pc = "synthesize_with_verification" =>
          /\ verification_questions = <<>>
          /\ verification_results = <<>>
          /\ running_summary' = running_summary]_vars

\* a session that is no direct request went through the three verification
\* nodes and holds the text summarize_sources wrote
C27_Witness ==
    /\ pc = "reflect_on_summary"
    /\ ~direct_request
    /\ Last(trace) = "synthesize_with_verification"
    /\ running_summary = <<"text">>
    /\ verification_results = <<>>

\* the classification service gave no usable answer: transport error, status
\* other than 200, malformed body, or a confidence below 0.70
ServiceUnusable ==
    \/ fn.resp.transport = "error"
    \/ fn.resp.status # 200
    \/ fn.resp.body # "object"
    \/ fn.resp.confidence_is = "text"
    \/ (fn.resp.confidence_is = "number" /\ fn.resp.confidence < 70)

\* C28: MLIntentClassifier.classify_intent never raises because of the
\* classification service; after a transport error, a non-200 status, a
\* malformed body or a confidence below 0.70 it returns exactly the rule-based
\* result for the same text.
C28_ClassifierFallsBackToRules ==
    (fn.op = "classify_intent" /\ fn.done) =>
        /\ ~fn.raised
        /\ ServiceUnusable =>
               fn.result = IntentClassifier_classify_intent(fn.text)

\* the service was asked and failed at transport level; the rule-based
\* result came back
C28_Witness ==
    /\ fn.op = "classify_intent" /\ fn.done
    /\ fn.ml_called
    /\ fn.resp.transport = "error"
    /\ fn.result.classification_method = "simplified_rule_based"
    /\ fn.result.routing_strategy = "web_search"

\* C29: research_loop_count is never negative and never decreases; every
\* completed web_research, on its normal path and on the path through its
\* except branch, adds exactly 1, and no other node changes the value.
C29_LoopCountCountsWebResearch ==
    [][/\ research_loop_count >= 0
       /\ research_loop_count' >= research_loop_count
       /\ pc = "web_research" => research_loop_count' = research_loop_count + 1
       /\ pc # "web_research" => research_loop_count' = research_loop_count]_vars

\* a second web_research went through its except branch and the count is 2
C29_Witness ==
    /\ research_loop_count = 2
    /\ Count(trace, "web_research") = 2
    /\ Last(trace) = "web_research"
    /\ last_search.excepted

\* C30: two sessions that run in parallel leave the registered tool
\* servers and the integration's tool functions as one session run alone
\* leaves them (at most the one server "server:0" with its functions, its
\* session open and kept), and each session is offered the tools it would
\* have been offered alone
C30_ParallelSessionsRunAsIfAlone ==
    /\ tool_servers <= 1
    /\ tool_functions \subseteq ServerTools
    /\ open_sessions \subseteq {sessions}
    /\ \A s \in {1, 2} :
         researchers[s].at = "done" =>
             researchers[s].saw \subseteq tools \cup ServerTools

\* C31: research_topic never changes after the session input set it;
\* input_analysis and search_strategy are written by classify_intent only,
\* which runs once as the first node: every later node leaves all three
\* unchanged.
C31_TopicAnalysisStrategyWrittenOnce ==
    [][/\ research_topic' = research_topic
       /\ pc # "classify_intent" =>
              /\ input_analysis' = input_analysis
              /\ search_strategy' = search_strategy
       /\ pc = "classify_intent" => trace = <<>>]_vars

\* a url_fetch session has finished with the analysis classify_intent made
C31_Witness ==
    /\ pc = "END"
    /\ search_strategy = "url_fetch"
    /\ input_analysis = analyze_user_input(research_topic)
    /\ input_analysis # EmptyAnalysis
    /\ Count(trace, "classify_intent") = 1

C37_WitnessUrlWithoutDirectFetch ==
    /\ input_analysis.input_type = "url"
    /\ ~input_analysis.direct_fetch
    /\ search_strategy = "web_search"
    /\ Count(trace, "web_research") > 0

\* C36: when fetch_url_content has just run for a URL whose page could be
\* fetched, web_research_results holds the formatted page as its single
\* entry, sources_gathered holds its source as its single entry and
\* research_loop_count is 0; the lists are empty only when no URL was
\* present or the fetch failed.
C36_FetchedContentIsFirstResult ==
    (trace # <<>> /\ Last(trace) = "fetch_url_content") =>
        /\ last_search.fetched =>
               /\ web_research_results =
                      << deduplicate_and_format_sources(<<FetchedPage>>) >>
               /\ sources_gathered = << format_sources(<<FetchedPage>>) >>
               /\ research_loop_count = 0
        /\ web_research_results = <<>> =>
               (input_analysis.url = "None" \/ ~last_search.fetched)

\* C35: strip_thinking_tokens terminates for every text, also when a
\* "</think>" stands in front of the first "<think>": every round of its loop
\* removes at least the two tags, so the loop runs at most half as many
\* rounds as the text has tokens, the text never gets longer than the input,
\* and the returned text holds no "<think>" that is followed by a "</think>".
C35_StripTerminatesAndShrinks ==
    fn.op = "strip_thinking_tokens" =>
        /\ fn.rounds <= Len(fn.input) \div 2
        /\ Len(fn.text) <= Len(fn.input)
        /\ fn.done => ~(Find(fn.text, "<think>") >= 0
                        /\ Find(fn.text, "</think>") >= 0)

\* the parameters that the operation's own "parameters" list gives
OwnProperties(entry) ==
    {entry.parameters[i].name : i \in 1..Len(entry.parameters)}

OwnRequired(entry) ==
    IF entry.parameters # <<>> /\ entry.parameters[1].required
    THEN <<"p">> ELSE <<>>

\* the entries of the converted document that are operations, in order
OperationsOf(entries) ==
    LET IsMethod(e) == Lower(e.key) \in {"get", "post", "put", "delete", "patch"}
    IN  SelectSeq(entries, IsMethod)

\* C32 as stated: every POST, PUT or PATCH operation whose request-body
\* schema is a $ref to a schema of components/schemas gets a tool whose
\* properties and required list are the operation's own plus those of the
\* referenced schema; entries under keys that are no HTTP method get no tool.
C32_RefSchemaGivesParameters ==
    (fn.op = "convert_openapi" /\ fn.done) =>
        LET ops == OperationsOf(fn.entries)
        IN  /\ Len(fn.tools) = Len(ops)
            /\ \A i \in 1..Len(ops) :
                 (Lower(ops[i].key) \in {"post", "put", "patch"}
                  /\ ops[i].body = "ref") =>
                     /\ fn.tools[i].properties =
                            OwnProperties(ops[i]) \cup fn.Form.properties
                     /\ fn.tools[i].required =
                            OwnRequired(ops[i]) \o fn.Form.required

\* C32 with its precondition: the same, for a referenced schema that has the
\* key "properties"; a referenced schema without that key adds nothing, its
\* required list included.
C32_RefSchemaWithPropertiesGivesParameters ==
    (fn.op = "convert_openapi" /\ fn.done) =>
        LET ops == OperationsOf(fn.entries)
        IN  /\ Len(fn.tools) = Len(ops)
            /\ \A i \in 1..Len(ops) :
                 (Lower(ops[i].key) \in {"post", "put", "patch"}
                  /\ ops[i].body = "ref") =>
                     IF fn.Form.has_properties
                     THEN /\ fn.tools[i].properties =
                                 OwnProperties(ops[i]) \cup fn.Form.properties
                          /\ fn.tools[i].required =
                                 OwnRequired(ops[i]) \o fn.Form.required
                     ELSE /\ fn.tools[i].properties = OwnProperties(ops[i])
                          /\ fn.tools[i].required = OwnRequired(ops[i])

\* a PUT operation with a required parameter of its own and a $ref body was
\* converted
C32_Witness ==
    /\ fn.op = "convert_openapi"
    /\ fn.done
    /\ fn.Form.has_properties
    /\ fn.Form.required = <<"query">>
    /\ Len(fn.entries) = 1
    /\ fn.entries[1].key = "PUT"
    /\ fn.entries[1].body = "ref"
    /\ fn.tools[1].required = <<"p", "query">>
    /\ fn.tools[1].properties = {"p", "query", "limit"}

\* the /tools request raised, answered with another status than 200, or
\* its body could not be read as a table of tool objects
DiscoveryFailed(resp) ==
    \/ resp.transport = "error"
    \/ resp.status # 200
    \/ resp.shape \in {"not_json", "array", "tools_array"}
    \/ resp.shape = "table"
       /\ \E i \in 1..Len(resp.entries) : ~resp.entries[i].is_object

\* C33: when tool discovery fails, connect still succeeds (no exception,
\* connected) and the client's tools are exactly search_papers,
\* download_paper, list_papers and read_paper.
C33_FailedDiscoveryGivesDefaultTools ==
    (fn.op = "mcp_connect" /\ fn.done /\ DiscoveryFailed(fn.resp)) =>
        /\ fn.connected
        /\ ~fn.raised
        /\ fn.tools = {"search_papers", "download_paper", "list_papers",
                       "read_paper"}

\* the table's first tool was read before its second entry raised, and the
\* client has the four default tools
C33_Witness ==
    /\ fn.op = "mcp_connect"
    /\ fn.done
    /\ fn.resp.status = 200
    /\ fn.resp.shape = "table"
    /\ Len(fn.resp.entries) = 2
    /\ fn.resp.entries[1] = [name |-> "find_code", is_object |-> TRUE]
    /\ ~fn.resp.entries[2].is_object
    /\ fn.connected
    /\ Cardinality(fn.tools) = 4
    /\ "find_code" \notin fn.tools

\* the events of a call are POSTs with one wait between two of them
PostsWithWaitsBetween(log) ==
    \A i \in 1..Len(log) : log[i] = IF i % 2 = 1 THEN "post" ELSE "sleep"

\* position of the first answer accepted by Accepted among the first n, 0 for none
FirstAccepted(outcomes, n, Accepted(_)) ==
    IF \E i \in 1..n : Accepted(outcomes[i])
    THEN CHOOSE i \in 1..n :
             Accepted(outcomes[i]) /\ \A j \in 1..(i - 1) : ~Accepted(outcomes[j])
    ELSE 0

\* what C34 says of a finished call, with Accepted telling which answers end it
CallToolRetries(Accepted(_)) ==
    (fn.op = "mcp_call_tool" /\ fn.done /\ fn.max_retries >= 1) =>
        LET first == FirstAccepted(fn.outcomes, fn.max_retries, Accepted)
            posts == Count(fn.log, "post")
        IN  IF ~fn.connected \/ ~fn.known
            THEN fn.raised /\ fn.log = <<>>
            ELSE /\ posts <= fn.max_retries
                 /\ PostsWithWaitsBetween(fn.log)
                 /\ Len(fn.log) = 2 * posts - 1
                 /\ IF first > 0
                    THEN ~fn.raised /\ fn.returned = first /\ posts = first
                    ELSE fn.raised /\ posts = fn.max_retries

\* C34 as stated: at most max_retries POSTs; the body of the first response
\* with status 200 is returned and nothing more is sent; waits stand between
\* two attempts only; the call raises after the last attempt failed; a client
\* that is not connected or a tool it does not have raises without a request.
C34_ReturnsFirstStatus200 ==
    LET Status200(outcome) == outcome \in {"ok", "ok_not_json"}
    IN  CallToolRetries(Status200)

\* C34 with the first response that has status 200 and a body that
\* response.json() can read; a 200 response with another body is a failed
\* attempt like a timeout.
C34_ReturnsFirstReadableStatus200 ==
    LET Readable200(outcome) == outcome = "ok"
    IN  CallToolRetries(Readable200)

\* a call failed twice, waited twice and returned the third answer
C34_Witness ==
    /\ fn.op = "mcp_call_tool"
    /\ fn.done
    /\ fn.max_retries = 3
    /\ fn.outcomes = <<"timeout", "status_error", "ok">>
    /\ fn.log = <<"post", "sleep", "post", "sleep", "post">>
    /\ fn.returned = 3
    /\ ~fn.raised

\* the names among `names` whose execution succeeded, in order
RECURSIVE SucceededAmong(_, _)
SucceededAmong(names, success) ==
    IF names = <<>> THEN <<>>
    ELSE (IF success[1] THEN <<names[1]>> ELSE <<>>)
         \o SucceededAmong(Tail(names), Tail(success))

\* the LLM answered with a JSON object whose "tool_calls" is a list of objects
ToolCallsParsed(llm) ==
    /\ llm.kind = "list"
    /\ \A i \in 1..Len(llm.calls) : llm.calls[i] # "not_object"

C38_WitnessFallback ==
    /\ fn.op = "tool_enhanced_research"
    /\ fn.llm.kind = "text"
    /\ fn.executed = <<"web_search", "arxiv_search">>
    /\ fn.success = <<FALSE, TRUE>>
    /\ tool_results = <<ArxivToolResult>>

\* C39: every tool that register_tool_server created can be executed: when
\* execute_tool is called with the name of a registered server tool, also
\* one whose name was generated for an operation without operationId,
\* _execute_tool_server finds the operation and does not fail with "not
\* found in OpenAPI spec" before any request is sent.
C39_RegisteredToolsFindTheirOperation ==
    (last_execution.tool \in ServerTools /\ last_execution.served) =>
        ~(/\ ~last_execution.success
          /\ last_execution.error = "not_found"
          /\ last_execution.requests = 0)

\* C40: while a call is between the creation of its session and the reading
\* of its answer, that session is open and is the one stored for the server
\* (the other call has neither closed nor replaced it), and a finished call
\* has the outcome its answer gives it when the call runs alone: returned
\* for a good answer, raised otherwise.
C40_InterleavedCallsKeepTheirSessions ==
    \A s \in {1, 2} :
        /\ researchers[s].at = "requesting" =>
               /\ researchers[s].session \in open_sessions
               /\ sessions = researchers[s].session
        /\ researchers[s].at = "done" =>
               (researchers[s].result = "returned"
                    <=> researchers[s].http = "ok")

====
